---- MODULE Spec2Model ----
(***************************************************************************)
(* AI Observer: StorageManager, EventBus, CopilotAdapter and               *)
(* CopilotChatMonitor as one state machine.                                *)
(*                                                                         *)
(* Execution is single-threaded and cooperative.  One step of the model is *)
(* one macrotask of the JavaScript event loop: the arrival of an editor    *)
(* signal, a command, a timer tick or the completion of one file-system    *)
(* operation, together with every promise continuation (microtask) that it *)
(* makes runnable.  A step therefore runs each awakened handler up to its  *)
(* next pending file-system operation.                                     *)
(*                                                                         *)
(* The operators that translate the methods take the program state as a    *)
(* record s (one field per variable) and return the state after the        *)
(* synchronous stretch of code they model.                                 *)
(***************************************************************************)
EXTENDS Integers, Sequences, FiniteSets, TLC

VARIABLES
  now,                 \* Date.now(), in milliseconds
  nCalls,              \* number of external calls and signals handled so far
  nextUuid,            \* randomUUID(): the next fresh identifier
  \* ---- StorageManager
  disk,                \* the backing file interactions.json
  interactions,        \* StorageManager.interactions
  maxInteractions,     \* StorageManager.maxInteractions
  loadPc,              \* position of load(): "access", "read" or "done"
  storeOps,            \* in-flight saveInteraction / clearLogs / exportLogs calls, in call order
  appendLog,           \* every record placed in the list (loaded or pushed), in order
  exportFile,          \* the destination file of exportLogs
  rejections,          \* number of store calls whose promise was rejected
  cleared,             \* nextUuid at the call of the last clearLogs that has
                       \* returned with its write done (0: none has)
  analytics,           \* what the last getAnalytics() returned (<<>>: no call yet)
  saved,               \* the save() calls of appends and clears settled so far:
                       \* "none", "written" (all wrote the file) or "failed"
  \* ---- EventBus and orchestration
  listeners,           \* EventBus.listeners.get('interaction')
  loggingEnabled,      \* extension.ts loggingEnabled
  published,           \* every payload handed to emit('interaction', ..), in order
  \* ---- CopilotAdapter
  isRunning,           \* CopilotAdapter.isRunning
  disposables,         \* CopilotAdapter.disposables (subscribed signals)
  pendingSuggestions,  \* CopilotAdapter.pendingSuggestions
  textTasks,           \* in-flight onTextChange invocations
  lastStart,           \* what the last recorded start() of the monitor found
  \* ---- CopilotChatMonitor
  dir,                 \* the transcript directory (entries in readdir order)
  watcher,             \* CopilotChatMonitor.watcher (0 is undefined)
  rescanTimer,         \* CopilotChatMonitor.rescanTimer (0 is undefined)
  liveWatchers,        \* fs.watch handles that are open
  liveTimers,          \* setInterval handles that are armed
  nextHandle,          \* the next fresh handle
  processed,           \* CopilotChatMonitor.processed, in insertion order
  startTasks,          \* in-flight start() invocations
  scanTasks,           \* in-flight scanSessions() invocations
  lastLifecycle,       \* the most recent of start() / stop() on the chat monitor
  fullScanDone,        \* some scan ran alone, without I/O error, to completion
  sequelPublished,     \* a scan begun alone after such a scan has published
  stopMark,            \* number of Interactions published when stop() was last called
  republished,         \* the scan of a start() called after a stop() has published
                       \* a turn that was published before that stop()
  \* ---- extension.ts
  enableLogging,       \* the setting aiObserver.enableLogging
  chatMonitor,         \* extension.ts chatMonitor: an instance, or 0 for null
  chatMonitorRetry,    \* extension.ts chatMonitorRetry: the 10 s timer is pending
  monitors,            \* the CopilotChatMonitor instances created, by number:
                       \* their watcher and rescanTimer (0 is undefined)
  extTasks,            \* in-flight invocations of extension.ts: applyLoggingState,
                       \* the retry callback and the commands
  \* ---- EventBus with arbitrary handlers
  registry,            \* EventBus.listeners: event type -> handlers, in order
  calls,               \* the emit() calls made so far and their promises
  atCall,              \* per emit() call, the handlers registered when it was made
  invocations,         \* the handler invocations made so far, in order
  logged               \* number of console.error reports of the bus

vars == <<now, nCalls, nextUuid,
          disk, interactions, maxInteractions, loadPc, storeOps, appendLog,
          exportFile, rejections, cleared, analytics, saved,
          listeners, loggingEnabled, published,
          isRunning, disposables, pendingSuggestions, textTasks, lastStart,
          dir, watcher, rescanTimer, liveWatchers, liveTimers, nextHandle,
          processed, startTasks, scanTasks, lastLifecycle,
          fullScanDone, sequelPublished, stopMark, republished,
          enableLogging, chatMonitor, chatMonitorRetry, monitors, extTasks,
          registry, calls, atCall, invocations, logged>>

busVars == <<registry, calls, atCall, invocations, logged>>

\* Everything but the bus with arbitrary handlers and the call counter.
appVars == <<now, nextUuid,
             disk, interactions, maxInteractions, loadPc, storeOps, appendLog,
          exportFile, rejections, cleared, analytics, saved,
             listeners, loggingEnabled, published,
             isRunning, disposables, pendingSuggestions, textTasks, lastStart,
             dir, watcher, rescanTimer, liveWatchers, liveTimers, nextHandle,
             processed, startTasks, scanTasks, lastLifecycle,
             fullScanDone, sequelPublished, stopMark, republished,
          enableLogging, chatMonitor, chatMonitorRetry, monitors, extTasks>>

\* The program state as a record, and its installation as the next state.
Cur ==
  [now |-> now, nCalls |-> nCalls, nextUuid |-> nextUuid,
   disk |-> disk, interactions |-> interactions,
   maxInteractions |-> maxInteractions, loadPc |-> loadPc,
   storeOps |-> storeOps, appendLog |-> appendLog,
   exportFile |-> exportFile, rejections |-> rejections,
   cleared |-> cleared, analytics |-> analytics, saved |-> saved,
   listeners |-> listeners, loggingEnabled |-> loggingEnabled,
   published |-> published,
   isRunning |-> isRunning, disposables |-> disposables,
   pendingSuggestions |-> pendingSuggestions, textTasks |-> textTasks,
   lastStart |-> lastStart,
   dir |-> dir, watcher |-> watcher, rescanTimer |-> rescanTimer,
   liveWatchers |-> liveWatchers, liveTimers |-> liveTimers,
   nextHandle |-> nextHandle, processed |-> processed,
   startTasks |-> startTasks, scanTasks |-> scanTasks,
   lastLifecycle |-> lastLifecycle, fullScanDone |-> fullScanDone,
   sequelPublished |-> sequelPublished,
   stopMark |-> stopMark, republished |-> republished,
   enableLogging |-> enableLogging, chatMonitor |-> chatMonitor,
   chatMonitorRetry |-> chatMonitorRetry, monitors |-> monitors,
   extTasks |-> extTasks]

Commit(s) ==
  /\ now' = s.now /\ nCalls' = s.nCalls
  /\ nextUuid' = s.nextUuid
  /\ disk' = s.disk /\ interactions' = s.interactions
  /\ maxInteractions' = s.maxInteractions /\ loadPc' = s.loadPc
  /\ storeOps' = s.storeOps /\ appendLog' = s.appendLog
  /\ exportFile' = s.exportFile /\ rejections' = s.rejections
  /\ cleared' = s.cleared /\ analytics' = s.analytics /\ saved' = s.saved
  /\ listeners' = s.listeners /\ loggingEnabled' = s.loggingEnabled
  /\ published' = s.published
  /\ isRunning' = s.isRunning /\ disposables' = s.disposables
  /\ pendingSuggestions' = s.pendingSuggestions /\ textTasks' = s.textTasks
  /\ lastStart' = s.lastStart
  /\ dir' = s.dir /\ watcher' = s.watcher /\ rescanTimer' = s.rescanTimer
  /\ liveWatchers' = s.liveWatchers /\ liveTimers' = s.liveTimers
  /\ nextHandle' = s.nextHandle /\ processed' = s.processed
  /\ startTasks' = s.startTasks /\ scanTasks' = s.scanTasks
  /\ lastLifecycle' = s.lastLifecycle /\ fullScanDone' = s.fullScanDone
  /\ sequelPublished' = s.sequelPublished
  /\ stopMark' = s.stopMark /\ republished' = s.republished
  /\ enableLogging' = s.enableLogging /\ chatMonitor' = s.chatMonitor
  /\ chatMonitorRetry' = s.chatMonitorRetry /\ monitors' = s.monitors
  /\ extTasks' = s.extTasks
  /\ UNCHANGED busVars

\* ------------------------------------------------------------------------
\* Bounds of the model
\* ------------------------------------------------------------------------
MaxStoreCalls == 2     \* calls on the store per behaviour
MaxSignals == 4        \* calls, signals and clock advances of the completion monitor per behaviour
MaxChatCalls == 3      \* calls and callbacks of the chat monitor per behaviour
MaxPublished == 2      \* Interactions the completion monitor publishes per behaviour
MaxTurnCalls == 2      \* start() and timer callbacks when single turns are followed
MaxStampCalls == 1     \* start() calls when dated turns are followed
MaxLiveCalls == 1      \* start() and stop() calls when the timer is followed
MaxLiveScans == 1      \* scans in flight when the timer is followed
MaxAnalyticsCalls == 1 \* getAnalytics() calls per behaviour
MaxBusCalls == 4       \* on, off, clear and emit calls on the bus
MaxExtCalls == 2       \* setting changes, toggle commands and retry callbacks
MaxSwitchCalls == 2    \* setting changes and text signals when the store is followed

\* ------------------------------------------------------------------------
\* Text and sequences
\* ------------------------------------------------------------------------
\* A string is the sequence of its characters.
Repeat(c, n) == [i \in 1..n |-> c]

Range(f) == {f[i] : i \in DOMAIN f}

RemoveAt(seq, i) == SubSeq(seq, 1, i - 1) \o SubSeq(seq, i + 1, Len(seq))

\* Array.prototype.slice(start): a negative start counts from the end, and
\* the start is clamped to the array.
Slice(seq, start) ==
  LET from == IF start < 0
              THEN (IF Len(seq) + start < 0 THEN 0 ELSE Len(seq) + start)
              ELSE (IF start > Len(seq) THEN Len(seq) ELSE start)
  IN SubSeq(seq, from + 1, Len(seq))

\* The caller a finished asynchronous call resumes.
NoOwner == [kind |-> "none", id |-> 0]

\* Tables of in-flight invocations are functions from identifiers.
FreshId(f) == CHOOSE i \in 1..(Cardinality(DOMAIN f) + 1) : i \notin DOMAIN f

Without(f, id) == [i \in DOMAIN f \ {id} |-> f[i]]

\* An external call or signal is counted before its handler runs.
Called(s) == [s EXCEPT !.nCalls = @ + 1]

RECURSIVE Resume(_, _)

\* ------------------------------------------------------------------------
\* StorageManager
\* ------------------------------------------------------------------------
DefaultMaxInteractions == 10000

\* JSON.stringify(list, null, 2): the text holds, per record, its properties
\* in order, each as a key and a value.
JsonKeys ==
  <<"id", "timestamp", "type", "prompt", "response", "filePath", "accepted",
    "latency", "lineNumber", "metadata">>

\* A serialisation that writes the records last first.
StringifyReversed(list) ==
  [i \in DOMAIN list |->
     [k \in DOMAIN JsonKeys |->
        <<JsonKeys[k], list[Len(list) + 1 - i][JsonKeys[k]]>>]]

Stringify(list) ==
  [i \in DOMAIN list |->
     [k \in DOMAIN JsonKeys |-> <<JsonKeys[k], list[i][JsonKeys[k]]>>]]

\* JSON.parse of such a text: each record is rebuilt from its keys and values.
Parse(text) ==
  [i \in DOMAIN text |->
     [f \in Range(JsonKeys) |->
        LET k == CHOOSE k \in DOMAIN text[i] : text[i][k][1] = f
        IN text[i][k][2]]]

\* The rows exportLogs writes to a .csv destination, after the header; the
\* language and model columns are left out.
CsvRows(list) ==
  [i \in DOMAIN list |->
     <<list[i].id, list[i].timestamp, list[i].type, list[i].accepted,
       list[i].latency>>]

\* path.extname(filePath).toLowerCase()
ToLowerCase(ext) ==
  CASE ext = ".JSON" -> ".json"
    [] ext = ".Csv" -> ".csv"
    [] OTHER -> ext

NoFile == [kind |-> "absent", data |-> <<>>]

\* saveInteraction, after ensureLoaded: push, then trim to the cap.
PushAndTrim(list, x, max) ==
  LET pushed == Append(list, x)
  IN IF Len(pushed) > max THEN Slice(pushed, 0 - max) ELSE pushed

\* The stretch of a store operation between ensureLoaded() and its first
\* file-system call (fs.mkdir, in save() or in exportLogs).
AfterLoaded(s, i) ==
  LET op == s.storeOps[i]
      s1 == CASE op.op = "saveInteraction"
                   -> [s EXCEPT
                         !.interactions = PushAndTrim(@, op.arg, s.maxInteractions),
                         !.appendLog = Append(@, op.arg)]
              [] op.op = "clearLogs" -> [s EXCEPT !.interactions = <<>>]
              [] OTHER -> s
  IN [s1 EXCEPT !.storeOps[i].pc = "mkdir"]

\* A call of saveInteraction, clearLogs or exportLogs on behalf of owner.
\* ensureLoaded() resolves in the same macrotask when the load has completed;
\* early records that the call was made before.
StoreCall(s, opName, arg, owner) ==
  LET op == [op |-> opName, pc |-> "load", arg |-> arg, data |-> <<>>,
             owner |-> owner, ext |-> "", early |-> s.loadPc # "done",
             stamp |-> s.nextUuid]
      s1 == [s EXCEPT !.storeOps = Append(@, op)]
  IN IF s.loadPc = "done" THEN AfterLoaded(s1, Len(s1.storeOps)) ELSE s1

saveInteraction(s, interaction, owner) ==
  StoreCall(s, "saveInteraction", interaction, owner)

clearLogs(s, owner) == StoreCall(s, "clearLogs", <<>>, owner)

\* exportLogs(filePath), up to its first suspension; ext is the extension of
\* filePath.
exportLogs(s, ext, owner) ==
  LET op == [op |-> "exportLogs", pc |-> "load", arg |-> <<>>, data |-> <<>>,
             owner |-> owner, ext |-> ToLowerCase(ext),
             early |-> s.loadPc # "done", stamp |-> s.nextUuid]
      s1 == [s EXCEPT !.storeOps = Append(@, op)]
  IN IF s.loadPc = "done" THEN AfterLoaded(s1, Len(s1.storeOps)) ELSE s1

\* Waiting callers continued last caller first.
RECURSIVE WakeLoadWaitersBackwards(_, _)
WakeLoadWaitersBackwards(s, i) ==
  IF i > Len(s.storeOps) THEN s
  ELSE LET j == Len(s.storeOps) + 1 - i
       IN WakeLoadWaitersBackwards(IF s.storeOps[j].pc = "load"
                                   THEN AfterLoaded(s, j) ELSE s, i + 1)

RECURSIVE WakeLoadWaiters(_, _)
WakeLoadWaiters(s, i) ==
  IF i > Len(s.storeOps) THEN s
  ELSE WakeLoadWaiters(IF s.storeOps[i].pc = "load" THEN AfterLoaded(s, i)
                       ELSE s, i + 1)

\* A load that assigns the list after the waiting callers have continued.
LoadReturnsOverwrites(s, list) ==
  [WakeLoadWaiters([s EXCEPT !.loadPc = "done"], 1)
     EXCEPT !.interactions = list, !.appendLog = list]

\* load() returns: the callers awaiting loadPromise continue in call order.
LoadReturns(s, list) ==
  WakeLoadWaiters([s EXCEPT !.loadPc = "done", !.interactions = list,
                            !.appendLog = list], 1)

\* load(), first half: fs.access.
loadAccessDone(s, ok) ==
  IF ok /\ s.disk.kind # "absent"
  THEN [s EXCEPT !.loadPc = "read"]
  ELSE LoadReturns(s, <<>>)

\* What load() makes of the file it has read, under the cap max: JSON.parse,
\* Array.isArray, the cap; anything else resets to the empty list.
Loaded(file, max) ==
  IF file.kind = "array"
  THEN LET parsed == Parse(file.data)
       IN IF Len(parsed) > max THEN Slice(parsed, 0 - max) ELSE parsed
  ELSE <<>>

\* load(), second half: fs.readFile and what follows it.
loadReadDone(s, ok) ==
  IF ok THEN LoadReturns(s, Loaded(s.disk, s.maxInteractions))
  ELSE LoadReturns(s, <<>>)

\* A save() whose failure is not caught.
SaveSettlesNoCatch(ok) == IF ok THEN "resolved" ELSE "rejected"

\* How the promise of save() settles when its file-system call has
\* succeeded (ok) or failed: the failure is caught and logged.
SaveSettles(ok) == IF ok THEN "resolved" ELSE "resolved"

\* An exportLogs whose failure is not caught.
ExportSettlesNoCatch(ok) == IF ok THEN "resolved" ELSE "rejected"

\* The same for exportLogs, whose body is one try/catch.
ExportSettles(ok) == IF ok THEN "resolved" ELSE "resolved"

\* A store operation returns to its caller, its promise settled as outcome.
StoreOpReturns(s, i, outcome) ==
  Resume([s EXCEPT !.storeOps = RemoveAt(@, i),
                   !.rejections = IF outcome = "rejected" THEN @ + 1 ELSE @],
         s.storeOps[i].owner)

\* The outcome of the operation op whose file-system call has settled.
Settles(op, ok) ==
  IF op.op = "exportLogs" THEN ExportSettles(ok) ELSE SaveSettles(ok)

\* fs.mkdir completes, in save() or in exportLogs.  On success the list is
\* serialised and the write is issued (exportLogs: as JSON or CSV by the
\* extension, and nothing for another extension); on failure the error is
\* logged and the operation returns.
saveMkdirDone(s, i, ok) ==
  LET op == s.storeOps[i]
  IN IF ~ok
     THEN StoreOpReturns([s EXCEPT !.saved = IF op.op # "exportLogs"
                                             THEN "failed" ELSE @],
                         i, Settles(op, FALSE))
     ELSE IF op.op # "exportLogs" \/ op.ext = ".json"
     THEN [s EXCEPT !.storeOps[i].pc = "write",
                    !.storeOps[i].data = Stringify(s.interactions)]
     ELSE IF op.ext = ".csv"
     THEN [s EXCEPT !.storeOps[i].pc = "write",
                    !.storeOps[i].data = CsvRows(s.interactions)]
     ELSE StoreOpReturns(s, i, Settles(op, TRUE))

\* fs.writeFile completes, on the backing file or on the export destination.
saveWriteDone(s, i, ok) ==
  LET op == s.storeOps[i]
  IN StoreOpReturns(
       IF ~ok
       THEN [s EXCEPT !.saved = IF op.op # "exportLogs" THEN "failed" ELSE @]
       ELSE IF op.op # "exportLogs"
       THEN [s EXCEPT !.disk = [kind |-> "array", data |-> op.data],
                      !.saved = IF @ = "none" THEN "written" ELSE @,
                      !.cleared = IF op.op = "clearLogs" THEN op.stamp ELSE @]
       ELSE [s EXCEPT !.exportFile =
                        [kind |-> IF op.ext = ".json" THEN "array" ELSE "csv",
                         data |-> op.data]], i, Settles(op, ok))

setMaxInteractions(s, max) == [s EXCEPT !.maxInteractions = max]

\* ------------------------------------------------------------------------
\* Number arithmetic of getAnalytics
\* ------------------------------------------------------------------------
\* A JavaScript Number is an IEEE 754 binary64 value.  The non-negative ones
\* are modelled exactly: zero, or the 53 bits of the significand, most
\* significant first and the first one set, with the count of those bits
\* that stand before the binary point.  The integers met here (sums, totals,
\* counts) are below 2^30 and so are Numbers without rounding; totals are
\* below 2^15.
Precision == 53

Zero == [zero |-> TRUE, bits |-> <<>>, point |-> 0]

\* The last width binary digits of a natural number.
Digits(n, width) == [i \in 1..width |-> (n \div 2 ^ (width - i)) % 2]

\* The binary digits of a natural number from its first set one, none for 0.
Binary(n) ==
  IF n = 0 THEN <<>>
  ELSE Digits(n, CHOOSE w \in 1..30 : 2 ^ (w - 1) <= n /\ n \div 2 < 2 ^ (w - 1))

RECURSIVE FromBinary(_, _)
FromBinary(bits, count) ==
  IF count = 0 THEN 0 ELSE 2 * FromBinary(bits, count - 1) + bits[count]

\* 2^j modulo n.
RECURSIVE PowerMod(_, _)
PowerMod(j, n) ==
  IF j = 0 THEN 1 % n
  ELSE LET h == PowerMod(j \div 2, n)
       IN (h * h * (IF j % 2 = 1 THEN 2 ELSE 1)) % n

\* The remainder of r / n (0 <= r < n) after j binary digits past the point.
Remainder(r, n, j) == (r * PowerMod(j, n)) % n

\* The first count binary digits of r / n after the point.
Expansion(r, n, count) ==
  [i \in 1..count |-> (2 * Remainder(r, n, i - 1)) \div n]

\* The zero digits that follow the point of r / n (0 < r < n).
RECURSIVE LeadingZeros(_, _)
LeadingZeros(r, n) == IF 2 * r >= n THEN 0 ELSE 1 + LeadingZeros(2 * r, n)

Zeros(count) == [i \in 1..count |-> 0]

\* The digits plus one.
Increment(bits) ==
  IF \A i \in DOMAIN bits : bits[i] = 1 THEN <<1>> \o Zeros(Len(bits))
  ELSE LET last == CHOOSE i \in DOMAIN bits :
                     bits[i] = 0 /\ \A j \in i + 1..Len(bits) : bits[j] = 1
       IN SubSeq(bits, 1, last - 1) \o <<1>> \o Zeros(Len(bits) - last)

\* Rounding to nearest, ties to even, of the exact value whose digits (at
\* least 53, the first one set) are followed by nothing but zeros unless
\* sticky is set.
RoundToNearest(digits, sticky, point) ==
  LET kept == SubSeq(digits, 1, Precision)
      tail == SubSeq(digits, Precision + 1, Len(digits))
      half == tail # <<>> /\ tail[1] = 1
      more == sticky \/ \E i \in 2..Len(tail) : tail[i] = 1
      up == half /\ (more \/ kept[Precision] = 1)
      raised == Increment(kept)
  IN IF ~up THEN [zero |-> FALSE, bits |-> kept, point |-> point]
     ELSE IF Len(raised) > Precision
     THEN [zero |-> FALSE, bits |-> SubSeq(raised, 1, Precision),
           point |-> point + 1]
     ELSE [zero |-> FALSE, bits |-> raised, point |-> point]

\* s / n for integers s >= 0 and n > 0.
Divide(s, n) ==
  IF s = 0 THEN Zero
  ELSE LET whole == Binary(s \div n)
           r == s % n
           zeros == IF whole = <<>> THEN LeadingZeros(r, n) ELSE 0
           count == Precision + 1 - Len(whole)
       IN RoundToNearest(
            whole \o Expansion(Remainder(r, n, zeros), n, count),
            Remainder(r, n, zeros + count) # 0,
            Len(whole) - zeros)

\* The digits of a 53-digit significand times m (0 < m <= 128), computed on
\* its three parts of 17, 18 and 18 digits.
TimesDigits(bits, m) ==
  LET high == FromBinary(SubSeq(bits, 1, 17), 17)
      middle == FromBinary(SubSeq(bits, 18, 35), 18)
      low == FromBinary(SubSeq(bits, 36, 53), 18)
      lowProduct == low * m
      middleProduct == middle * m + lowProduct \div 2 ^ 18
      highProduct == high * m + middleProduct \div 2 ^ 18
  IN Binary(highProduct) \o Digits(middleProduct % 2 ^ 18, 18)
       \o Digits(lowProduct % 2 ^ 18, 18)

\* x * m for a Number x and an integer m, 0 < m <= 128.
Times(x, m) ==
  IF x.zero THEN Zero
  ELSE LET product == TimesDigits(x.bits, m)
       IN RoundToNearest(product, FALSE, x.point + Len(product) - Precision)

\* Math.round of a Number below 2^30: the nearest integer, a tie going up.
MathRound(x) ==
  IF x.zero \/ x.point < 0 THEN 0
  ELSE FromBinary(x.bits, x.point) + x.bits[x.point + 1]

\* The reduce of getAnalytics over the first count records.
RECURSIVE SumLatency(_, _)
SumLatency(list, count) ==
  IF count = 0 THEN 0
  ELSE SumLatency(list, count - 1) + list[count].latency

\* The totals getAnalytics derives from the list (records with a latency
\* that is a non-negative integer and a boolean accepted).
AnalyticsData(list) ==
  LET totalInteractions == Len(list)
      accepted == Cardinality({i \in DOMAIN list : list[i].accepted})
  IN [totalInteractions |-> totalInteractions,
      averageLatency |->
        IF totalInteractions = 0 THEN 0
        ELSE MathRound(Divide(SumLatency(list, totalInteractions),
                              totalInteractions)),
      acceptanceRate |->
        IF totalInteractions = 0 THEN 0
        ELSE MathRound(Times(Divide(accepted, totalInteractions), 100))]

\* StorageManager.getAnalytics()
getAnalytics(s) == [s EXCEPT !.analytics = AnalyticsData(s.interactions)]

\* A listener that appends whatever the switch says.
interactionListenerAlways(s, data, owner) ==
  [s |-> saveInteraction(s, data, owner), pending |-> 1]

\* ------------------------------------------------------------------------
\* EventBus and the orchestration's listener
\* ------------------------------------------------------------------------
\* interactionListener (extension.ts): skipped while logging is disabled,
\* otherwise it awaits saveInteraction.  The result tells whether the
\* invocation is still pending when the macrotask ends.
interactionListener(s, data, owner) ==
  IF ~s.loggingEnabled
  THEN [s |-> s, pending |-> 0]
  ELSE [s |-> saveInteraction(s, data, owner), pending |-> 1]

\* The listeners are invoked in registration order; the dashboard's listener
\* is synchronous and touches no state of the model.
RECURSIVE InvokeListeners(_, _, _, _)
InvokeListeners(r, data, owner, i) ==
  IF i > Len(r.s.listeners) THEN r
  ELSE IF r.s.listeners[i] = "interactionListener"
       THEN LET q == interactionListener(r.s, data, owner)
            IN InvokeListeners([s |-> q.s, pending |-> r.pending + q.pending],
                               data, owner, i + 1)
       ELSE InvokeListeners(r, data, owner, i + 1)

\* emit('interaction', data) on behalf of owner: settled tells whether
\* Promise.all resolves within the macrotask (the caller then continues at
\* once); otherwise the caller is resumed when the last listener returns.
emit(s, data, owner) ==
  LET s1 == [s EXCEPT !.published = Append(@, data)]
      r == InvokeListeners([s |-> s1, pending |-> 0], data, owner, 1)
  IN [s |-> r.s, settled |-> r.pending = 0]

\* ------------------------------------------------------------------------
\* EventBus with arbitrary handlers
\* ------------------------------------------------------------------------
EventTypes == {"interaction", "other"}

\* A handler is named by what it does when invoked: it returns, it throws,
\* or it returns a promise that is later resolved or rejected.
Handlers == {"returns", "throws", "resolves", "rejects"}

Payloads == {"p1", "p2"}

\* The bus as a record.
Bus ==
  [registry |-> registry, calls |-> calls, invocations |-> invocations,
   logged |-> logged]

CommitBus(b) ==
  /\ registry' = b.registry /\ calls' = b.calls
  /\ invocations' = b.invocations /\ logged' = b.logged

\* EventBus.on: the listener is pushed on the event type's array.
EventBus_on(b, eventType, listener) ==
  [b EXCEPT !.registry[eventType] = Append(@, listener)]

\* EventBus.off: every registration of the listener is filtered out.
EventBus_off(b, eventType, listener) ==
  [b EXCEPT !.registry[eventType] = SelectSeq(@, LAMBDA h : h # listener)]

\* EventBus.clear.
EventBus_clear(b) == [b EXCEPT !.registry = [t \in EventTypes |-> <<>>]]

\* EventBus.getListenerCount.
getListenerCount(b, eventType) == Len(b.registry[eventType])

\* The execution without the catch: a listener that throws rejects it.
ExecutionNoCatch(listener) ==
  CASE listener = "returns" -> [state |-> "fulfilled", logs |-> 0]
    [] listener = "throws" -> [state |-> "rejected", logs |-> 0]
    [] OTHER -> [state |-> "pending", logs |-> 0]

\* `await listener(data)` inside try/catch, up to the end of the macrotask:
\* the state of the execution's promise and whether the catch has logged.
Execution(listener) ==
  CASE listener = "returns" -> [state |-> "fulfilled", logs |-> 0]
    [] listener = "throws" -> [state |-> "fulfilled", logs |-> 1]
    [] OTHER -> [state |-> "pending", logs |-> 0]

\* The promise the listener returned settles: the await continues, and a
\* rejection is caught and logged.
ExecutionSettled(listener) ==
  IF listener = "rejects"
  THEN [state |-> "fulfilled", logs |-> 1]
  ELSE [state |-> "fulfilled", logs |-> 0]

\* An emit that does not wait for its executions.
PromiseAllNoWait(invs, c) == "resolved"

\* Promise.all over the executions of the call c.
PromiseAll(invs, c) ==
  LET mine == {i \in DOMAIN invs : invs[i].call = c}
  IN IF \E i \in mine : invs[i].state = "rejected" THEN "rejected"
     ELSE IF \A i \in mine : invs[i].state = "fulfilled" THEN "resolved"
     ELSE "pending"

\* existing.map(async (listener) => ..): the listeners of the array are
\* invoked in order, each within the macrotask of the call.
RECURSIVE MapListeners(_, _, _, _)
MapListeners(b, c, existing, data) ==
  IF existing = <<>> THEN b
  ELSE LET x == Execution(Head(existing))
           inv == [call |-> c, listener |-> Head(existing), data |-> data,
                   state |-> x.state]
       IN MapListeners([b EXCEPT !.invocations = Append(@, inv),
                                 !.logged = @ + x.logs],
                       c, Tail(existing), data)

\* EventBus.emit, up to the end of the macrotask of the call.
EventBus_emit(b, eventType, data) ==
  LET existing == b.registry[eventType]
      c == Len(b.calls) + 1
      call == [eventType |-> eventType, data |-> data, state |-> "pending"]
      b1 == [b EXCEPT !.calls = Append(@, call)]
  IN IF Len(existing) = 0
     THEN [b1 EXCEPT !.calls[c].state = "resolved"]
     ELSE LET b2 == MapListeners(b1, c, existing, data)
          IN [b2 EXCEPT !.calls[c].state = PromiseAll(b2.invocations, c)]

\* The promise returned to the invocation i settles; Promise.all of its
\* call is re-evaluated.
listenerSettled(b, i) ==
  LET x == ExecutionSettled(b.invocations[i].listener)
      c == b.invocations[i].call
      b1 == [b EXCEPT !.invocations[i].state = x.state, !.logged = @ + x.logs]
  IN [b1 EXCEPT !.calls[c].state = PromiseAll(b1.invocations, c)]

\* ------------------------------------------------------------------------
\* CopilotAdapter
\* ------------------------------------------------------------------------
PendingTtl == 30000

NoMetadata == [requestId |-> <<>>, sessionId |-> <<>>, sourcePath |-> ""]

Key(document, line) == <<document.uri, line>>

Subscriptions == <<"onDidChangeTextDocument", "onDidChangeTextEditorSelection",
                   "onDidChangeActiveTextEditor">>

\* A start() that keeps isRunning set when the assistant is absent.
CopilotAdapter_startNoReset(s, copilotPresent) ==
  IF s.isRunning THEN s
  ELSE IF ~copilotPresent THEN [s EXCEPT !.isRunning = TRUE]
  ELSE [s EXCEPT !.isRunning = TRUE, !.disposables = @ \o Subscriptions]

\* CopilotAdapter.start()
CopilotAdapter_start(s, copilotPresent) ==
  IF s.isRunning THEN s
  ELSE IF ~copilotPresent THEN [s EXCEPT !.isRunning = FALSE]
  ELSE [s EXCEPT !.isRunning = TRUE, !.disposables = @ \o Subscriptions]

\* CopilotAdapter.stop()
CopilotAdapter_stop(s) ==
  IF ~s.isRunning THEN s
  ELSE [s EXCEPT !.isRunning = FALSE, !.disposables = <<>>,
                 !.pendingSuggestions = <<>>]

\* The sweep at the end of onSelectionChange.
SweepStale(pending, time) ==
  LET keep == {k \in DOMAIN pending : ~(time - pending[k].startTime > PendingTtl)}
  IN [k \in keep |-> pending[k]]

\* An onSelectionChange that arms the entry and sweeps nothing.
onSelectionChangeKeeps(s, document, line, contextBefore) ==
  IF ~s.isRunning THEN s
  ELSE LET key == Key(document, line)
           entry == [id |-> s.nextUuid, startTime |-> s.now,
                     contextBefore |-> contextBefore]
           armed == [k \in DOMAIN s.pendingSuggestions \cup {key} |->
                       IF k = key THEN entry ELSE s.pendingSuggestions[k]]
       IN [s EXCEPT !.nextUuid = @ + 1, !.pendingSuggestions = armed]

\* CopilotAdapter.onSelectionChange
onSelectionChange(s, document, line, contextBefore) ==
  IF ~s.isRunning THEN s
  ELSE LET key == Key(document, line)
           entry == [id |-> s.nextUuid, startTime |-> s.now,
                     contextBefore |-> contextBefore]
           armed == [k \in DOMAIN s.pendingSuggestions \cup {key} |->
                       IF k = key THEN entry ELSE s.pendingSuggestions[k]]
       IN [s EXCEPT !.nextUuid = @ + 1,
                    !.pendingSuggestions = SweepStale(armed, s.now)]

\* An onEditorChange that drops only the entries older than the window.
onEditorChangeSweeps(s) ==
  IF ~s.isRunning THEN s
  ELSE [s EXCEPT !.pendingSuggestions = SweepStale(@, s.now)]

\* CopilotAdapter.onEditorChange
onEditorChange(s) ==
  IF ~s.isRunning THEN s ELSE [s EXCEPT !.pendingSuggestions = <<>>]

\* CopilotAdapter.getStats
getStats ==
  [running |-> isRunning,
   pendingSuggestions |-> Cardinality(DOMAIN pendingSuggestions)]

\* The heuristic with the single-line threshold off by one (>= 50).
isLikelyAIFrom50(text) ==
  Len(text) > 20 /\ ((\E i \in DOMAIN text : text[i] = "\n") \/ Len(text) >= 50)

\* The insertion heuristic of onTextChange.
isLikelyAI(text) ==
  Len(text) > 20 /\ ((\E i \in DOMAIN text : text[i] = "\n") \/ Len(text) > 50)

\* A matched Interaction that reports the latency of the unmatched path.
MatchedInteractionNoLatency(pending, change, document, time) ==
  [id |-> pending.id, timestamp |-> time, type |-> "completion",
   prompt |-> pending.contextBefore, response |-> change.text,
   filePath |-> document.uri, accepted |-> TRUE,
   latency |-> 0, lineNumber |-> change.line,
   metadata |-> NoMetadata]

\* The Interaction built when a pending suggestion matches the edit.
MatchedInteraction(pending, change, document, time) ==
  [id |-> pending.id, timestamp |-> time, type |-> "completion",
   prompt |-> pending.contextBefore, response |-> change.text,
   filePath |-> document.uri, accepted |-> TRUE,
   latency |-> time - pending.startTime, lineNumber |-> change.line,
   metadata |-> NoMetadata]

\* An unmatched Interaction that takes the inserted text as its prompt.
UnmatchedInteractionWithPrompt(uuid, change, document, time) ==
  [id |-> uuid, timestamp |-> time, type |-> "completion",
   prompt |-> change.text, response |-> change.text,
   filePath |-> document.uri, accepted |-> TRUE,
   latency |-> 0, lineNumber |-> change.line,
   metadata |-> NoMetadata]

\* The Interaction built when no pending suggestion matches the edit.
UnmatchedInteraction(uuid, change, document, time) ==
  [id |-> uuid, timestamp |-> time, type |-> "completion",
   prompt |-> <<>>, response |-> change.text,
   filePath |-> document.uri, accepted |-> TRUE,
   latency |-> 0, lineNumber |-> change.line,
   metadata |-> NoMetadata]

\* The loop of onTextChange over the content changes not yet visited, for
\* the invocation t, up to the first emit that does not settle at once.  The
\* invocation keeps the change it is awaiting and the changes after it.
RECURSIVE TextLoop(_, _, _)
TextLoop(s, t, changes) ==
  LET task == s.textTasks[t]
      change == Head(changes)
      key == Key(task.document, change.line)
      owner == [kind |-> "text", id |-> t]
  IN IF changes = <<>>
     THEN [s EXCEPT !.textTasks = Without(@, t)]
     ELSE IF change.text = <<>> \/ ~isLikelyAI(change.text)
     THEN TextLoop(s, t, Tail(changes))
     ELSE IF key \in DOMAIN s.pendingSuggestions
     THEN LET interaction == MatchedInteraction(s.pendingSuggestions[key],
                               change, task.document, s.now)
              s1 == [s EXCEPT !.textTasks[t].change = change,
                              !.textTasks[t].rest = Tail(changes),
                              !.textTasks[t].matched = TRUE]
              r == emit(s1, interaction, owner)
          IN IF r.settled
             THEN TextLoop([r.s EXCEPT !.pendingSuggestions = Without(@, key)],
                           t, Tail(changes))
             ELSE r.s
     ELSE LET interaction == UnmatchedInteraction(s.nextUuid, change,
                               task.document, s.now)
              s1 == [s EXCEPT !.textTasks[t].change = change,
                              !.textTasks[t].rest = Tail(changes),
                              !.textTasks[t].matched = FALSE,
                              !.nextUuid = @ + 1]
              r == emit(s1, interaction, owner)
          IN IF r.settled THEN TextLoop(r.s, t, Tail(changes)) ELSE r.s

NoChange == [text |-> <<>>, line |-> 0]

\* CopilotAdapter.onTextChange, from the signal to its first suspension.
onTextChange(s, e) ==
  IF ~s.isRunning THEN s
  ELSE IF e.document.isUntitled THEN s
  ELSE IF Len(e.contentChanges) = 0 THEN s
  ELSE LET t == FreshId(s.textTasks)
           task == [document |-> e.document, change |-> NoChange,
                    rest |-> <<>>, matched |-> FALSE]
       IN TextLoop([s EXCEPT !.textTasks = t :> task @@ @], t, e.contentChanges)

\* onTextChange continues after `await this.eventBus.emit(..)`.
TextResume(s, t) ==
  LET task == s.textTasks[t]
      key == Key(task.document, task.change.line)
      s1 == IF task.matched
            THEN [s EXCEPT !.pendingSuggestions = Without(@, key)]
            ELSE s
  IN TextLoop(s1, t, task.rest)

\* ------------------------------------------------------------------------
\* CopilotChatMonitor
\* ------------------------------------------------------------------------
\* The source keeps 5000 keys; the model keeps the same rule with a cap that
\* three request records can exceed.
MAX_TRACKED == 2

Whitespace == {" ", "\n", "\t"}

RECURSIVE TrimStart(_)
TrimStart(text) ==
  IF text # <<>> /\ Head(text) \in Whitespace THEN TrimStart(Tail(text))
  ELSE text

RECURSIVE TrimEnd(_)
TrimEnd(text) ==
  IF text # <<>> /\ text[Len(text)] \in Whitespace
  THEN TrimEnd(SubSeq(text, 1, Len(text) - 1))
  ELSE text

\* String.prototype.trim
Trim(text) == TrimEnd(TrimStart(text))

\* Array.prototype.join
RECURSIVE Join(_, _)
Join(chunks, sep) ==
  IF chunks = <<>> THEN <<>>
  ELSE IF Len(chunks) = 1 THEN chunks[1]
  ELSE chunks[1] \o sep \o Join(Tail(chunks), sep)

RECURSIVE Flatten(_)
Flatten(seqs) == IF seqs = <<>> THEN <<>> ELSE Head(seqs) \o Flatten(Tail(seqs))

\* The chunks one response part contributes.  An optional string field is a
\* sequence of zero or one strings.
PartChunks(part) ==
  IF part.kind = "toolInvocationSerialized" THEN part.pastTenseMessage
  ELSE IF part.kind = "markdown" THEN Flatten(part.content)
  ELSE IF part.value # <<>> THEN part.value
  ELSE part.text

\* CopilotChatMonitor.extractResponseText
extractResponseText(parts) ==
  Trim(Join(Flatten([i \in DOMAIN parts |-> PartChunks(parts[i])]),
            <<"\n", "\n">>))

\* A resolution that prefers the creation date to the last-message date.
resolveTimestampCreationFirst(request, doc, time) ==
  IF request.timestamp # <<>> /\ request.timestamp[1].ok
  THEN request.timestamp[1].n
  ELSE IF doc.creationDate # <<>> /\ doc.creationDate[1].ok
  THEN doc.creationDate[1].n
  ELSE IF doc.lastMessageDate # <<>> /\ doc.lastMessageDate[1].ok
  THEN doc.lastMessageDate[1].n
  ELSE time

\* CopilotChatMonitor.resolveTimestamp.  A numeric field is a sequence of
\* zero or one records [ok, n]: ok tells whether the number is finite, or
\* whether the date string parses.
resolveTimestamp(request, doc, time) ==
  IF request.timestamp # <<>> /\ request.timestamp[1].ok
  THEN request.timestamp[1].n
  ELSE IF doc.lastMessageDate # <<>> /\ doc.lastMessageDate[1].ok
  THEN doc.lastMessageDate[1].n
  ELSE IF doc.creationDate # <<>> /\ doc.creationDate[1].ok
  THEN doc.creationDate[1].n
  ELSE time

\* Set.prototype.add on the insertion-ordered set.
SetAdd(set, key) == IF key \in Range(set) THEN set ELSE Append(set, key)

\* CopilotChatMonitor.cullProcessed
cullProcessed(set) ==
  IF Len(set) <= MAX_TRACKED THEN set
  ELSE SubSeq(set, Len(set) - MAX_TRACKED + 1, Len(set))

\* A test that takes a turn without prompt for an empty one.
IsEmptyTurnPromptOnly(prompt, response) == prompt = <<>>

\* `!prompt && !response`
IsEmptyTurn(prompt, response) == prompt = <<>> /\ response = <<>>

\* The Interaction of one chat turn.
ChatInteraction(uuid, request, doc, filePath, time) ==
  [id |-> uuid, timestamp |-> resolveTimestamp(request, doc, time),
   type |-> "chat", prompt |-> Trim(Flatten(request.text)),
   response |-> extractResponseText(request.response),
   filePath |-> "copilot-chat", accepted |-> TRUE, latency |-> 0,
   lineNumber |-> 0,
   metadata |-> [requestId |-> request.requestId,
                 sessionId |-> doc.sessionId, sourcePath |-> filePath]]

\* `${path.basename(filePath)}:${request.requestId ?? randomUUID()}`
UniqueId(file, request, uuid) ==
  IF request.requestId # <<>>
  THEN [file |-> file, requestId |-> request.requestId[1], uuid |-> 0]
  ELSE [file |-> file, requestId |-> "", uuid |-> uuid]

NoKey == [file |-> "", requestId |-> "", uuid |-> 0]

\* The scan task publishes, with interaction, a turn that carries a
\* requestId and is among the Interactions published before the stop() that
\* preceded the start() the scan belongs to, no key having been evicted.
Republishes(s, task, interaction) ==
  /\ task.owner.kind = "start"
  /\ Len(s.processed) < MAX_TRACKED
  /\ interaction.metadata.requestId # <<>>
  /\ \E i \in 1..s.startTasks[task.owner.id].mark :
       /\ s.published[i].type = "chat"
       /\ s.published[i].metadata.requestId = interaction.metadata.requestId
       /\ s.published[i].metadata.sourcePath = interaction.metadata.sourcePath

\* start() continues after `await this.scanSessions()`: fs.watch, setInterval.
StartResume(s, t) ==
  [s EXCEPT !.watcher = s.nextHandle,
            !.liveWatchers = @ \cup {s.nextHandle},
            !.rescanTimer = s.nextHandle + 1,
            !.liveTimers = @ \cup {s.nextHandle + 1},
            !.nextHandle = @ + 2,
            !.startTasks = Without(@, t)]

\* scanSessions returns.
ScanReturns(s, t) ==
  LET task == s.scanTasks[t]
      s1 == [s EXCEPT !.scanTasks = Without(@, t),
                      !.fullScanDone = @ \/ (task.solo /\ task.clean)]
  IN IF task.owner.kind = "start" THEN StartResume(s1, task.owner.id) ELSE s1

\* A loop that ends at the first entry that is not a .json file.
RECURSIVE NextFileBreaks(_, _, _)
NextFileBreaks(s, t, i) ==
  IF i > Len(s.dir) THEN ScanReturns(s, t)
  ELSE IF ~s.dir[i].json THEN ScanReturns(s, t)
  ELSE [s EXCEPT !.scanTasks[t].pc = "readFile", !.scanTasks[t].fileIdx = i]

\* The loop of scanSessions over the directory entries from index i: the
\* next .json entry is handed to processSession, which reads it.
RECURSIVE NextFile(_, _, _)
NextFile(s, t, i) ==
  IF i > Len(s.dir) THEN ScanReturns(s, t)
  ELSE IF ~s.dir[i].json THEN NextFile(s, t, i + 1)
  ELSE [s EXCEPT !.scanTasks[t].pc = "readFile", !.scanTasks[t].fileIdx = i]

\* A loop that marks the key of a turn before its publish has settled.
RECURSIVE RequestLoopMarksFirst(_, _, _)
RequestLoopMarksFirst(s, t, j) ==
  LET task == s.scanTasks[t]
      entry == s.dir[task.fileIdx]
      request == entry.doc.requests[j]
      generated == request.requestId = <<>>
      uniqueId == UniqueId(entry.name, request, s.nextUuid)
      s0 == IF generated THEN [s EXCEPT !.nextUuid = @ + 1] ELSE s
      interaction == ChatInteraction(s0.nextUuid, request, entry.doc,
                                     entry.name, s.now)
  IN IF j > Len(entry.doc.requests)
     THEN NextFile(s, t, task.fileIdx + 1)
     ELSE IF uniqueId \in Range(s.processed)
     THEN RequestLoopMarksFirst(s0, t, j + 1)
     ELSE IF IsEmptyTurn(interaction.prompt, interaction.response)
     THEN RequestLoopMarksFirst(
            [s0 EXCEPT !.processed = SetAdd(@, uniqueId)], t, j + 1)
     ELSE LET s1 == [s0 EXCEPT !.nextUuid = @ + 1,
                               !.scanTasks[t].pc = "emit",
                               !.scanTasks[t].reqIdx = j,
                               !.scanTasks[t].key = uniqueId,
                               !.processed = cullProcessed(SetAdd(@, uniqueId)),
                               !.sequelPublished = @ \/ task.sequel,
                               !.republished =
                                 @ \/ Republishes(s, task, interaction)]
              r == emit(s1, interaction, [kind |-> "scan", id |-> t])
          IN IF r.settled THEN RequestLoopMarksFirst(r.s, t, j + 1) ELSE r.s

\* The loop of processSession over doc.requests from index j, up to the
\* first emit that does not settle at once.
RECURSIVE RequestLoop(_, _, _)
RequestLoop(s, t, j) ==
  LET task == s.scanTasks[t]
      entry == s.dir[task.fileIdx]
      request == entry.doc.requests[j]
      generated == request.requestId = <<>>
      uniqueId == UniqueId(entry.name, request, s.nextUuid)
      s0 == IF generated THEN [s EXCEPT !.nextUuid = @ + 1] ELSE s
      interaction == ChatInteraction(s0.nextUuid, request, entry.doc,
                                     entry.name, s.now)
  IN IF j > Len(entry.doc.requests)
     THEN NextFile(s, t, task.fileIdx + 1)
     ELSE IF uniqueId \in Range(s.processed)
     THEN RequestLoop(s0, t, j + 1)
     ELSE IF IsEmptyTurn(interaction.prompt, interaction.response)
     THEN RequestLoop([s0 EXCEPT !.processed = SetAdd(@, uniqueId)], t, j + 1)
     ELSE LET s1 == [s0 EXCEPT !.nextUuid = @ + 1,
                               !.scanTasks[t].pc = "emit",
                               !.scanTasks[t].reqIdx = j,
                               !.scanTasks[t].key = uniqueId,
                               !.sequelPublished = @ \/ task.sequel,
                               !.republished =
                                 @ \/ Republishes(s, task, interaction)]
              r == emit(s1, interaction, [kind |-> "scan", id |-> t])
          IN IF r.settled
             THEN RequestLoop(
                    [r.s EXCEPT !.processed = cullProcessed(SetAdd(@, uniqueId))],
                    t, j + 1)
             ELSE r.s

\* processSession continues after `await this.eventBus.emit(..)`.
ScanResume(s, t) ==
  LET task == s.scanTasks[t]
  IN RequestLoop(
       [s EXCEPT !.processed = cullProcessed(SetAdd(@, task.key))],
       t, task.reqIdx + 1)

\* scanSessions(): the call issues fsp.readdir.  A scan is solo while no
\* other scan is in flight, and a sequel when it begins alone after a scan
\* that ran alone and without I/O error to completion.
scanSessions(s, owner) ==
  LET t == FreshId(s.scanTasks)
      alone == DOMAIN s.scanTasks = {}
      task == [pc |-> "readdir", fileIdx |-> 0, reqIdx |-> 0, key |-> NoKey,
               owner |-> owner, solo |-> alone, clean |-> TRUE,
               sequel |-> alone /\ s.fullScanDone]
      others == [u \in DOMAIN s.scanTasks |->
                   [s.scanTasks[u] EXCEPT !.solo = FALSE]]
  IN [s EXCEPT !.scanTasks = t :> task @@ others]

\* scanSessions: fsp.readdir completes.
scanReaddirDone(s, t, ok) ==
  IF ok THEN NextFile(s, t, 1)
  ELSE ScanReturns([s EXCEPT !.scanTasks[t].clean = FALSE], t)

\* processSession: fsp.readFile completes; JSON.parse; Array.isArray.
processSession(s, t, ok) ==
  LET i == s.scanTasks[t].fileIdx
      doc == s.dir[i].doc
  IN IF ~ok THEN NextFile([s EXCEPT !.scanTasks[t].clean = FALSE], t, i + 1)
     ELSE IF ~doc.parsable \/ ~doc.hasRequests THEN NextFile(s, t, i + 1)
     ELSE RequestLoop(s, t, 1)

\* CopilotChatMonitor.start(), up to `await fsp.mkdir(..)`.
CopilotChatMonitor_start(s) ==
  LET s1 == [s EXCEPT !.lastLifecycle = "start"]
  IN IF s.watcher # 0 \/ s.rescanTimer # 0 THEN s1
     ELSE [s1 EXCEPT !.startTasks =
                       FreshId(s.startTasks) :>
                         [pc |-> "mkdir",
                          mark |-> IF s.lastLifecycle = "stop"
                                   THEN s.stopMark ELSE 0] @@ @]

\* start(): fsp.mkdir completes; on success the initial scan begins.
startMkdirDone(s, t, ok) ==
  IF ~ok THEN [s EXCEPT !.startTasks = Without(@, t)]
  ELSE scanSessions([s EXCEPT !.startTasks[t].pc = "scan"],
                    [kind |-> "start", id |-> t])

\* CopilotChatMonitor.stop()
CopilotChatMonitor_stop(s) ==
  [s EXCEPT !.lastLifecycle = "stop", !.stopMark = Len(s.published),
            !.liveWatchers = @ \ {s.watcher}, !.watcher = 0,
            !.liveTimers = @ \ {s.rescanTimer}, !.rescanTimer = 0]

\* ------------------------------------------------------------------------
\* Resumption of the caller of a finished asynchronous call
\* ------------------------------------------------------------------------
Resume(s, owner) ==
  IF owner.kind = "text" THEN TextResume(s, owner.id)
  ELSE IF owner.kind = "scan" THEN ScanResume(s, owner.id)
  ELSE s

\* ------------------------------------------------------------------------
\* extension.ts: the logging switch and the lazily created chat monitor
\* ------------------------------------------------------------------------
\* The transcript directory is empty here, so that a scanSessions() of an
\* instance is its readdir and nothing more; the scans its watcher and its
\* timer trigger change no state and are left out.
NewMonitor == [watcher |-> 0, rescanTimer |-> 0]

\* An invocation in flight: applyLoggingState ("apply"), the retry callback
\* ("retry") or the toggle command ("toggle"), with the place it awaits at.
ExtTask(kind, enabled, pc) ==
  [kind |-> kind, enabled |-> enabled, pc |-> pc, monitor |-> 0]

\* scheduleChatMonitorRetry
scheduleChatMonitorRetry(s) ==
  IF s.chatMonitorRetry \/ s.chatMonitor # 0 \/ ~s.loggingEnabled THEN s
  ELSE [s EXCEPT !.chatMonitorRetry = TRUE]

\* CopilotChatMonitor.stop() of the instance m.
Instance_stop(s, m) ==
  [s EXCEPT !.liveWatchers = @ \ {s.monitors[m].watcher},
            !.liveTimers = @ \ {s.monitors[m].rescanTimer},
            !.monitors[m] = NewMonitor]

\* CopilotChatMonitor.start() of the instance m, awaited by the invocation
\* t, up to `await fsp.mkdir(..)`.
Instance_start(s, t, m) ==
  IF s.monitors[m].watcher # 0 \/ s.monitors[m].rescanTimer # 0
  THEN [s EXCEPT !.extTasks = Without(@, t)]
  ELSE [s EXCEPT !.extTasks[t].pc = "mkdir", !.extTasks[t].monitor = m]

\* start() of an instance: fsp.mkdir completes; on success scanSessions()
\* issues its readdir.
instanceMkdirDone(s, t, ok) ==
  IF ~ok THEN [s EXCEPT !.extTasks = Without(@, t)]
  ELSE [s EXCEPT !.extTasks[t].pc = "readdir"]

\* start() of an instance continues after `await this.scanSessions()`:
\* fs.watch and setInterval, whatever the instance's fields hold by now.
instanceScanDone(s, t) ==
  LET m == s.extTasks[t].monitor
  IN [s EXCEPT !.monitors[m] = [watcher |-> s.nextHandle,
                                rescanTimer |-> s.nextHandle + 1],
               !.liveWatchers = @ \cup {s.nextHandle},
               !.liveTimers = @ \cup {s.nextHandle + 1},
               !.nextHandle = @ + 2,
               !.extTasks = Without(@, t)]

\* What follows `const monitor = await ensureChatMonitor()` in the
\* invocation t, in applyLoggingState and in the retry callback.
AfterEnsure(s, t, m) ==
  LET task == s.extTasks[t]
      done == [s EXCEPT !.extTasks = Without(@, t)]
  IN IF m # 0
     THEN IF task.kind = "retry" \/ task.enabled
          THEN Instance_start(s, t, m)
          ELSE Instance_stop(done, m)
     ELSE IF task.kind = "retry" \/ task.enabled
          THEN scheduleChatMonitorRetry(done)
          ELSE done

\* ensureChatMonitor continues after
\* `await resolveCopilotChatSessionsDirectory(context)`.
ensureResolved(s, t, found) ==
  IF ~found THEN AfterEnsure(s, t, 0)
  ELSE LET m == Len(s.monitors) + 1
       IN AfterEnsure([s EXCEPT !.monitors = Append(@, NewMonitor),
                                !.chatMonitor = m], t, m)

\* applyLoggingState(enabled), up to its first suspension.
applyLoggingState(s, enabled, copilotPresent) ==
  LET s1 == [s EXCEPT !.loggingEnabled = enabled]
      s2 == IF enabled THEN CopilotAdapter_start(s1, copilotPresent)
            ELSE CopilotAdapter_stop(s1)
      s3 == IF ~enabled THEN [s2 EXCEPT !.chatMonitorRetry = FALSE] ELSE s2
      t == FreshId(s.extTasks)
      s4 == [s3 EXCEPT !.extTasks =
                         t :> ExtTask("apply", enabled, "resolve") @@ @]
  IN IF s.chatMonitor # 0 THEN AfterEnsure(s4, t, s.chatMonitor) ELSE s4

\* The callback of the retry timer.
retryCallback(s) ==
  LET s1 == [s EXCEPT !.chatMonitorRetry = FALSE]
  IN IF ~s.loggingEnabled \/ s.chatMonitor # 0 THEN s1
     ELSE [s1 EXCEPT !.extTasks =
                       FreshId(@) :> ExtTask("retry", TRUE, "resolve") @@ @]

\* configurationListener, the setting having become value.
configurationListener(s, value, copilotPresent) ==
  applyLoggingState([s EXCEPT !.enableLogging = value], value, copilotPresent)

\* The toggle command, up to `await config.update(..)`.
toggleLoggingCmd(s) ==
  [s EXCEPT !.extTasks =
              FreshId(@) :> ExtTask("toggle", ~s.enableLogging, "update") @@ @]

\* config.update of the toggle command t takes effect: the setting changes
\* and, when it differs from before, the configuration listener is called.
configUpdated(s, t, copilotPresent) ==
  LET next == s.extTasks[t].enabled
      s1 == [s EXCEPT !.extTasks[t].pc = "updated"]
  IN IF next = s.enableLogging THEN s1
     ELSE configurationListener(s1, next, copilotPresent)

\* The toggle command t continues after `await config.update(..)` with
\* applyLoggingState(next, {notify: true}).
toggleResume(s, t, copilotPresent) ==
  applyLoggingState([s EXCEPT !.extTasks = Without(@, t)],
                    s.extTasks[t].enabled, copilotPresent)

\* ------------------------------------------------------------------------
\* Inputs
\* ------------------------------------------------------------------------
MaxScans == 2          \* start() and scanSessions() invocations in flight

Caps == 0..2

Instants == {0, 2000, 30000, 31000}

FileDocument == [uri |-> "file:///a.ts", isUntitled |-> FALSE]
UntitledDocument == [uri |-> "untitled:Untitled-1", isUntitled |-> TRUE]
Documents == {FileDocument, UntitledDocument}

Lines == {5}

Foo == <<"f", "o", "o", "\n">>
Contexts == {Foo}

\* "x".repeat(21), and 40 characters on two lines
TwoLines40 == Repeat("x", 19) \o <<"\n">> \o Repeat("x", 20)
Texts == {Repeat("x", 21), TwoLines40}

Changes == [text : Texts, line : Lines]

\* Signals carry no, one or two content changes.
ChangeLists ==
  {<<>>} \cup {<<c>> : c \in Changes} \cup {<<c, d>> : c \in Changes, d \in Changes}

\* Every signal of an untitled document is dropped alike; one change suffices.
TextEvents ==
  [document : {FileDocument}, contentChanges : ChangeLists]
  \cup [document : {UntitledDocument},
        contentChanges : {<<c>> : c \in Changes}]

\* Signals of the file document with one or two accepted insertions.
SwitchEvents ==
  [document : {FileDocument},
   contentChanges : {<<[text |-> TwoLines40, line |-> 5]>>,
                     <<[text |-> TwoLines40, line |-> 5],
                       [text |-> TwoLines40, line |-> 5]>>}]

\* Spans around the thresholds of the heuristic: 21, 50 and 51 characters on
\* one line, 20 and 21 characters on two lines, and the empty span.
Multi20 == Repeat("x", 9) \o <<"\n">> \o Repeat("x", 10)
Multi21 == Repeat("x", 10) \o <<"\n">> \o Repeat("x", 10)
SpanTexts ==
  {<<>>, Repeat("x", 21), Repeat("x", 50), Repeat("x", 51), Multi20, Multi21}

\* Signals that carry one inserted span.
SpanEvents ==
  [document : Documents,
   contentChanges : {<<[text |-> t, line |-> l]>> : t \in SpanTexts, l \in Lines}]

\* Extensions of export destinations.
Extensions == {".json", ".JSON", ".csv", ".txt"}

\* Records the store is handed directly.
StoreInputs(uuid) ==
  {[id |-> uuid, timestamp |-> ts, type |-> "completion", prompt |-> <<>>,
    response |-> <<"o", "k">>, filePath |-> "file:///a.ts", accepted |-> TRUE,
    latency |-> 100, lineNumber |-> 0, metadata |-> NoMetadata]
     : ts \in {1000 - uuid}}

\* Contents of the backing file at activation; stored identifiers are
\* negative, those drawn in this session positive.
Stored(n) ==
  [i \in 1..n |->
     [id |-> 0 - i, timestamp |-> 500 + i, type |-> "completion",
      prompt |-> <<>>, response |-> <<"o", "k">>, filePath |-> "file:///a.ts",
      accepted |-> TRUE, latency |-> 100, lineNumber |-> 0,
      metadata |-> NoMetadata]]

DiskContents ==
  {[kind |-> "absent", data |-> <<>>], [kind |-> "garbage", data |-> <<>>],
   [kind |-> "object", data |-> <<>>], [kind |-> "array", data |-> <<>>],
   [kind |-> "array", data |-> Stringify(Stored(1))],
   [kind |-> "array", data |-> Stringify(Stored(3))]}

WiredDiskContents == {[kind |-> "array", data |-> Stringify(Stored(1))]}

\* Lists for getAnalytics: total records of which the first accepted ones
\* have accepted = true, with latencies that repeat a pattern of three.
Totals == {0, 1, 2, 3, 4, 8, 40}

LatencyPatterns == {<<100, 200, 300>>, <<1, 2, 2>>, <<0, 0, 1>>}

Sample(total, accepted, pattern) ==
  [i \in 1..total |->
     [id |-> 0 - i, timestamp |-> 500 + i, type |-> "completion",
      prompt |-> <<>>, response |-> <<"o", "k">>, filePath |-> "file:///a.ts",
      accepted |-> i <= accepted, latency |-> pattern[((i - 1) % 3) + 1],
      lineNumber |-> 0, metadata |-> NoMetadata]]

AnalyticsDiskContents ==
  UNION {{[kind |-> "array",
           data |-> Stringify(Sample(total, accepted, pattern))] :
            accepted \in 0..total, pattern \in LatencyPatterns} :
         total \in Totals}

\* Transcript files.
Request(requestId, text) ==
  [requestId |-> requestId, text |-> <<text>>, response |-> <<>>,
   timestamp |-> <<>>, modelId |-> <<>>]

Hi == <<" ", "h", "i">>
Blank == <<" ", " ">>

Session(requests) ==
  [parsable |-> TRUE, hasRequests |-> TRUE, requests |-> requests,
   sessionId |-> <<"s">>, creationDate |-> <<>>, lastMessageDate |-> <<>>]

Unparsable ==
  [parsable |-> FALSE, hasRequests |-> FALSE, requests |-> <<>>,
   sessionId |-> <<>>, creationDate |-> <<>>, lastMessageDate |-> <<>>]

NoRequests ==
  [parsable |-> TRUE, hasRequests |-> FALSE, requests |-> <<>>,
   sessionId |-> <<>>, creationDate |-> <<>>, lastMessageDate |-> <<>>]

\* A request record with a response of one part and a timestamp, and a
\* session document with its two dates.
ValuePart(string) ==
  [kind |-> "", pastTenseMessage |-> <<>>, content |-> <<>>,
   value |-> <<string>>, text |-> <<>>]

Turn(requestId, text, response, timestamp) ==
  [requestId |-> requestId, text |-> <<text>>, response |-> response,
   timestamp |-> timestamp, modelId |-> <<>>]

Dated(requests, creationDate, lastMessageDate) ==
  [parsable |-> TRUE, hasRequests |-> TRUE, requests |-> requests,
   sessionId |-> <<"s">>, creationDate |-> creationDate,
   lastMessageDate |-> lastMessageDate]

\* An optional number or date: missing, invalid (not finite, not a string,
\* or a string that does not parse), or valid with the value n.
Optional(n) == {<<>>, <<[ok |-> FALSE, n |-> 0]>>, <<[ok |-> TRUE, n |-> n]>>}

JsonFile(name, doc) == [name |-> name, json |-> TRUE, doc |-> doc]
OtherFile(name) == [name |-> name, json |-> FALSE, doc |-> Unparsable]

DirContents ==
  {<<OtherFile("notes.txt"),
     JsonFile("s1.json", Session(<<Request(<<"r1">>, Hi)>>))>>,
   <<JsonFile("s1.json", Session(<<Request(<<>>, Hi)>>))>>,
   <<JsonFile("s1.json", Session(<<Request(<<>>, Blank)>>))>>,
   <<JsonFile("s1.json", Session(<<Request(<<"r1">>, Blank), Request(<<"r2">>, Hi)>>))>>,
   <<JsonFile("s0.json", Unparsable), JsonFile("s1.json", NoRequests)>>}

\* Directories of one session file: a turn with every combination of the
\* three timestamp sources.
StampDirContents ==
  {<<JsonFile("s1.json",
              Dated(<<Turn(<<"r1">>, Hi, <<>>, timestamp)>>,
                    creationDate, lastMessageDate))>> :
     timestamp \in Optional(7), creationDate \in Optional(8),
     lastMessageDate \in Optional(9)}

\* Directories of one session file: turns with and without requestId,
\* prompt and response.
TurnDirContents ==
  {<<JsonFile("s1.json",
              Dated(<<Turn(requestId, text, response, <<>>)>>, <<>>, <<>>))>> :
     requestId \in {<<>>, <<"r1">>}, text \in {Hi, Blank},
     response \in {<<>>, <<ValuePart(Blank)>>, <<ValuePart(Hi)>>}}

\* Directories whose turns all carry a requestId.
LiveDirContents ==
  {<<OtherFile("notes.txt"),
     JsonFile("s1.json", Session(<<Request(<<"r1">>, Hi)>>))>>,
   <<JsonFile("s1.json", Session(<<Request(<<"r1">>, Blank), Request(<<"r2">>, Hi)>>))>>,
   <<JsonFile("s0.json", Unparsable),
     JsonFile("s1.json", Session(<<Request(<<"r1">>, Hi)>>))>>}

\* ------------------------------------------------------------------------
\* Initial states
\* ------------------------------------------------------------------------
\* The fields after `new EventBus()`, `new StorageManager(..)`,
\* `new DashboardProvider(..)`, `new CopilotAdapter(..)`,
\* `new CopilotChatMonitor(..)` and eventBus.on('interaction', ..).
InitFields ==
  /\ now = 0 /\ nCalls = 0 /\ nextUuid = 1
  /\ interactions = <<>> /\ maxInteractions = DefaultMaxInteractions
  /\ loadPc = "access" /\ storeOps = <<>> /\ appendLog = <<>>
  /\ exportFile = NoFile /\ rejections = 0 /\ cleared = 0
  /\ analytics = <<>> /\ saved = "none"
  /\ listeners = <<"dashboard", "interactionListener">>
  /\ published = <<>>
  /\ pendingSuggestions = <<>> /\ textTasks = <<>> /\ lastStart = "none"
  /\ watcher = 0 /\ rescanTimer = 0 /\ liveWatchers = {} /\ liveTimers = {}
  /\ nextHandle = 1 /\ processed = <<>> /\ startTasks = <<>>
  /\ scanTasks = <<>> /\ lastLifecycle = "none"
  /\ fullScanDone = FALSE /\ sequelPublished = FALSE
  /\ stopMark = 0 /\ republished = FALSE
  /\ registry = [t \in EventTypes |-> <<>>]
  /\ calls = <<>> /\ atCall = <<>> /\ invocations = <<>> /\ logged = 0
  /\ chatMonitorRetry = FALSE /\ monitors = <<>>

\* The objects before applyLoggingState is first called: logging is on by
\* default, the completion monitor is stopped, no chat monitor is recorded.
InitObjects ==
  /\ InitFields
  /\ enableLogging = TRUE /\ loggingEnabled = TRUE
  /\ isRunning = FALSE /\ disposables = <<>>
  /\ chatMonitor = 0 /\ extTasks = <<>>

Init == InitObjects /\ disk \in DiskContents /\ dir = <<>>

InitAdapter == InitObjects /\ disk \in WiredDiskContents /\ dir = <<>>

InitStamp == InitObjects /\ disk \in WiredDiskContents /\ dir \in StampDirContents

InitLive == InitObjects /\ disk \in WiredDiskContents /\ dir \in LiveDirContents

InitTurn == InitObjects /\ disk \in WiredDiskContents /\ dir \in TurnDirContents

\* The bus alone: the store's file plays no part.
InitBus == InitObjects /\ disk \in WiredDiskContents /\ dir = <<>>

\* The state when activate() returns: applyLoggingState(loggingEnabled) has
\* run up to the directory resolution of ensureChatMonitor().
InitExtension ==
  /\ InitFields /\ disk \in WiredDiskContents /\ dir = <<>>
  /\ enableLogging \in BOOLEAN /\ loggingEnabled = enableLogging
  /\ isRunning \in {FALSE, enableLogging}
  /\ disposables = IF isRunning THEN Subscriptions ELSE <<>>
  /\ chatMonitor = 0
  /\ extTasks = 1 :> ExtTask("apply", enableLogging, "resolve")

InitAnalytics == InitObjects /\ disk \in AnalyticsDiskContents /\ dir = <<>>

InitChat == InitObjects /\ disk \in WiredDiskContents /\ dir \in DirContents

\* ------------------------------------------------------------------------
\* Actions: file-system completions of the store
\* ------------------------------------------------------------------------
LoadAccessDone ==
  /\ loadPc = "access"
  /\ \E ok \in BOOLEAN : Commit(loadAccessDone(Cur, ok))

LoadReadDone ==
  /\ loadPc = "read"
  /\ \E ok \in BOOLEAN : Commit(loadReadDone(Cur, ok))

SaveMkdirDone ==
  \E i \in DOMAIN storeOps, ok \in BOOLEAN :
    /\ storeOps[i].pc = "mkdir"
    /\ Commit(saveMkdirDone(Cur, i, ok))

SaveWriteDone ==
  \E i \in DOMAIN storeOps, ok \in BOOLEAN :
    /\ storeOps[i].pc = "write"
    /\ Commit(saveWriteDone(Cur, i, ok))

\* ------------------------------------------------------------------------
\* Actions: calls on the store
\* ------------------------------------------------------------------------
SaveInteractionCall ==
  /\ nCalls < MaxStoreCalls
  /\ \E x \in StoreInputs(nextUuid) :
       Commit(saveInteraction(
                [Called(Cur) EXCEPT !.nextUuid = @ + 1],
                x, NoOwner))

ClearLogsCall ==
  /\ nCalls < MaxStoreCalls
  /\ Commit(clearLogs(Called(Cur), NoOwner))

ExportLogsCall ==
  /\ nCalls < MaxStoreCalls
  /\ \E ext \in Extensions : Commit(exportLogs(Called(Cur), ext, NoOwner))

GetAnalyticsCall ==
  /\ nCalls < MaxAnalyticsCalls
  /\ Commit(getAnalytics(Called(Cur)))

SetMaxInteractionsCall ==
  /\ nCalls < MaxStoreCalls
  /\ \E max \in Caps :
       Commit(setMaxInteractions(Called(Cur), max))

\* ------------------------------------------------------------------------
\* Actions: the completion monitor and its signals
\* ------------------------------------------------------------------------
Tick ==
  /\ nCalls < MaxSignals
  /\ nCalls' = nCalls + 1
  /\ \E t \in Instants : t > now /\ now' = t
  /\ UNCHANGED <<nextUuid,
          disk, interactions, maxInteractions, loadPc, storeOps, appendLog,
          exportFile, rejections, cleared, analytics, saved,
          listeners, loggingEnabled, published,
          isRunning, disposables, pendingSuggestions, textTasks, lastStart,
          dir, watcher, rescanTimer, liveWatchers, liveTimers, nextHandle,
          processed, startTasks, scanTasks, lastLifecycle,
          fullScanDone, sequelPublished, stopMark, republished,
          enableLogging, chatMonitor, chatMonitorRetry, monitors, extTasks, busVars>>

AdapterStart ==
  /\ nCalls < MaxSignals
  /\ \E copilotPresent \in BOOLEAN :
       Commit(CopilotAdapter_start(Called(Cur),
                                   copilotPresent))

\* start(), the branch it takes being recorded.
RecordedStart ==
  /\ nCalls < MaxSignals
  /\ \E copilotPresent \in BOOLEAN :
       Commit([CopilotAdapter_start(Called(Cur), copilotPresent)
                 EXCEPT !.lastStart = IF isRunning THEN "ignored"
                                      ELSE IF copilotPresent THEN "started"
                                      ELSE "aborted"])

AdapterStop ==
  /\ nCalls < MaxSignals
  /\ Commit(CopilotAdapter_stop(Called(Cur)))

SelectionChange ==
  /\ nCalls < MaxSignals
  /\ "onDidChangeTextEditorSelection" \in Range(disposables)
  /\ \E document \in Documents, line \in Lines, contextBefore \in Contexts :
       Commit(onSelectionChange(
                Called(Cur),
                document, line, contextBefore))

\* The number of insertions of a change list that the heuristic accepts.
RECURSIVE Positives(_)
Positives(changes) ==
  IF changes = <<>> THEN 0
  ELSE (IF isLikelyAI(Head(changes).text) THEN 1 ELSE 0) + Positives(Tail(changes))

RECURSIVE SumOver(_, _)
SumOver(f, ids) ==
  IF ids = {} THEN 0
  ELSE LET id == CHOOSE x \in ids : TRUE
       IN Positives(f[id].rest) + SumOver(f, ids \ {id})

TextChange ==
  /\ nCalls < MaxSignals
  /\ "onDidChangeTextDocument" \in Range(disposables)
  /\ \E e \in TextEvents :
       /\ Len(published) + SumOver(textTasks, DOMAIN textTasks)
            + Positives(e.contentChanges) <= MaxPublished
       /\ Commit(onTextChange(Called(Cur), e))

\* A text-mutation signal with one inserted span.
SpanChange ==
  /\ nCalls < MaxSignals
  /\ "onDidChangeTextDocument" \in Range(disposables)
  /\ \E e \in SpanEvents :
       /\ Len(published) + SumOver(textTasks, DOMAIN textTasks)
            + Positives(e.contentChanges) <= MaxPublished
       /\ Commit(onTextChange(Called(Cur), e))

EditorChange ==
  /\ nCalls < MaxSignals
  /\ "onDidChangeActiveTextEditor" \in Range(disposables)
  /\ Commit(onEditorChange(Called(Cur)))

\* ------------------------------------------------------------------------
\* Actions: the chat monitor
\* ------------------------------------------------------------------------
InFlightScans == Cardinality(DOMAIN startTasks) + Cardinality(DOMAIN scanTasks)
                 - Cardinality({t \in DOMAIN scanTasks :
                                  scanTasks[t].owner.kind = "start"})

ChatStart ==
  /\ nCalls < MaxChatCalls
  /\ InFlightScans < MaxScans
  /\ Commit(CopilotChatMonitor_start(Called(Cur)))

ChatStop ==
  /\ nCalls < MaxChatCalls
  /\ Commit(CopilotChatMonitor_stop(Called(Cur)))

StartMkdirDone ==
  \E t \in DOMAIN startTasks, ok \in BOOLEAN :
    /\ startTasks[t].pc = "mkdir"
    /\ Commit(startMkdirDone(Cur, t, ok))

\* The callback passed to fs.watch.
WatchEvent ==
  /\ nCalls < MaxChatCalls
  /\ InFlightScans < MaxScans
  /\ \E h \in liveWatchers :
       Commit(scanSessions(Called(Cur), NoOwner))

\* The callback passed to setInterval.
TimerFire ==
  /\ nCalls < MaxChatCalls
  /\ InFlightScans < MaxScans
  /\ \E h \in liveTimers :
       Commit(scanSessions(Called(Cur), NoOwner))

\* start() and the timer's callback, for the directories of one turn.
TurnStart ==
  /\ nCalls < MaxTurnCalls
  /\ InFlightScans < MaxScans
  /\ Commit(CopilotChatMonitor_start(Called(Cur)))

\* start(), for the directories of one dated turn.
StampStart ==
  /\ nCalls < MaxStampCalls
  /\ InFlightScans < MaxScans
  /\ Commit(CopilotChatMonitor_start(Called(Cur)))

TurnTimerFire ==
  /\ nCalls < MaxTurnCalls
  /\ InFlightScans < MaxScans
  /\ \E h \in liveTimers :
       Commit(scanSessions(Called(Cur), NoOwner))

\* start() and stop(), when the timer is followed.
LiveStart ==
  /\ nCalls < MaxLiveCalls
  /\ InFlightScans < MaxLiveScans
  /\ Commit(CopilotChatMonitor_start(Called(Cur)))

LiveStop ==
  /\ nCalls < MaxLiveCalls
  /\ Commit(CopilotChatMonitor_stop(Called(Cur)))

\* The callback passed to setInterval, every 15 s for as long as the timer
\* is armed.
PeriodicScan ==
  /\ InFlightScans < MaxLiveScans
  /\ \E h \in liveTimers : Commit(scanSessions(Cur, NoOwner))

ScanReaddirDone ==
  \E t \in DOMAIN scanTasks, ok \in BOOLEAN :
    /\ scanTasks[t].pc = "readdir"
    /\ Commit(scanReaddirDone(Cur, t, ok))

ScanReadFileDone ==
  \E t \in DOMAIN scanTasks, ok \in BOOLEAN :
    /\ scanTasks[t].pc = "readFile"
    /\ Commit(processSession(Cur, t, ok))

\* ------------------------------------------------------------------------
\* Actions: the bus with arbitrary handlers
\* ------------------------------------------------------------------------
BusOn ==
  /\ nCalls < MaxBusCalls /\ nCalls' = nCalls + 1
  /\ \E eventType \in EventTypes, listener \in Handlers :
       CommitBus(EventBus_on(Bus, eventType, listener))
  /\ UNCHANGED <<atCall, appVars>>

BusOff ==
  /\ nCalls < MaxBusCalls /\ nCalls' = nCalls + 1
  /\ \E eventType \in EventTypes, listener \in Handlers :
       CommitBus(EventBus_off(Bus, eventType, listener))
  /\ UNCHANGED <<atCall, appVars>>

BusClear ==
  /\ nCalls < MaxBusCalls /\ nCalls' = nCalls + 1
  /\ CommitBus(EventBus_clear(Bus))
  /\ UNCHANGED <<atCall, appVars>>

BusEmit ==
  /\ nCalls < MaxBusCalls /\ nCalls' = nCalls + 1
  /\ \E eventType \in EventTypes, data \in Payloads :
       /\ CommitBus(EventBus_emit(Bus, eventType, data))
       /\ atCall' = Append(atCall, registry[eventType])
  /\ UNCHANGED appVars

\* A promise returned by a listener settles.
ListenerSettles ==
  /\ \E i \in DOMAIN invocations :
       /\ invocations[i].state = "pending"
       /\ CommitBus(listenerSettled(Bus, i))
  /\ UNCHANGED <<nCalls, atCall, appVars>>

\* ------------------------------------------------------------------------
\* Specifications
\* ------------------------------------------------------------------------
Next ==
  \/ LoadAccessDone \/ LoadReadDone \/ SaveMkdirDone \/ SaveWriteDone
  \/ SaveInteractionCall \/ ClearLogsCall \/ SetMaxInteractionsCall
  \/ ExportLogsCall

\* ------------------------------------------------------------------------
\* Actions: the logging switch
\* ------------------------------------------------------------------------
\* The setting aiObserver.enableLogging is changed in the settings.
ConfigurationChange ==
  /\ nCalls < MaxExtCalls
  /\ \E copilotPresent \in BOOLEAN :
       Commit(configurationListener(Called(Cur), ~enableLogging, copilotPresent))

ToggleLogging ==
  /\ nCalls < MaxExtCalls
  /\ Commit(toggleLoggingCmd(Called(Cur)))

ConfigUpdated ==
  \E t \in DOMAIN extTasks, copilotPresent \in BOOLEAN :
    /\ extTasks[t].pc = "update"
    /\ Commit(configUpdated(Cur, t, copilotPresent))

ToggleResume ==
  \E t \in DOMAIN extTasks, copilotPresent \in BOOLEAN :
    /\ extTasks[t].pc = "updated"
    /\ Commit(toggleResume(Cur, t, copilotPresent))

\* The directory resolution of an ensureChatMonitor() completes, with the
\* chatSessions directory or with null.
ResolveDone ==
  \E t \in DOMAIN extTasks, found \in BOOLEAN :
    /\ extTasks[t].pc = "resolve"
    /\ Commit(ensureResolved(Cur, t, found))

\* The 10 s retry timer fires.
RetryFires ==
  /\ nCalls < MaxExtCalls
  /\ chatMonitorRetry
  /\ Commit(retryCallback(Called(Cur)))

InstanceMkdirDone ==
  \E t \in DOMAIN extTasks, ok \in BOOLEAN :
    /\ extTasks[t].pc = "mkdir"
    /\ Commit(instanceMkdirDone(Cur, t, ok))

\* The readdir of an instance's initial scan completes, with no entry or
\* with an error: scanSessions returns either way.
InstanceScanDone ==
  \E t \in DOMAIN extTasks :
    /\ extTasks[t].pc = "readdir"
    /\ Commit(instanceScanDone(Cur, t))

\* The setting is changed, when the text signals are followed.
SwitchChange ==
  /\ nCalls < MaxSwitchCalls
  /\ \E copilotPresent \in BOOLEAN :
       Commit(configurationListener(Called(Cur), ~enableLogging, copilotPresent))

\* A text-mutation signal of the file document with one or two insertions
\* that the heuristic accepts.
SwitchTextChange ==
  /\ nCalls < MaxSwitchCalls
  /\ "onDidChangeTextDocument" \in Range(disposables)
  /\ \E e \in SwitchEvents :
       /\ Len(published) + SumOver(textTasks, DOMAIN textTasks)
            + Positives(e.contentChanges) <= MaxPublished
       /\ Commit(onTextChange(Called(Cur), e))

NextAdapter ==
  \/ LoadAccessDone \/ LoadReadDone \/ SaveMkdirDone \/ SaveWriteDone
  \/ Tick \/ AdapterStart \/ AdapterStop
  \/ SelectionChange \/ TextChange \/ EditorChange

NextClassify ==
  \/ LoadAccessDone \/ LoadReadDone \/ SaveMkdirDone \/ SaveWriteDone
  \/ AdapterStart \/ SelectionChange \/ SpanChange

NextLifecycle ==
  \/ LoadAccessDone \/ LoadReadDone \/ SaveMkdirDone \/ SaveWriteDone
  \/ RecordedStart \/ AdapterStop
  \/ SelectionChange \/ SpanChange \/ EditorChange

\* The extension after activate(): the switch and the chat monitor it
\* creates.
NextExtension ==
  \/ ConfigurationChange \/ ToggleLogging \/ ConfigUpdated \/ ToggleResume
  \/ ResolveDone \/ RetryFires \/ InstanceMkdirDone \/ InstanceScanDone

\* The switch among the completion monitor's text signals and the store.
NextSwitch ==
  \/ LoadAccessDone \/ LoadReadDone \/ SaveMkdirDone \/ SaveWriteDone
  \/ SwitchChange \/ ResolveDone \/ InstanceMkdirDone \/ InstanceScanDone
  \/ SwitchTextChange

NextBus == BusOn \/ BusOff \/ BusClear \/ BusEmit \/ ListenerSettles

NextChat ==
  \/ LoadAccessDone \/ LoadReadDone \/ SaveMkdirDone \/ SaveWriteDone
  \/ ChatStart \/ ChatStop \/ StartMkdirDone
  \/ WatchEvent \/ TimerFire \/ ScanReaddirDone \/ ScanReadFileDone

NextStamp ==
  \/ LoadAccessDone \/ LoadReadDone \/ SaveMkdirDone \/ SaveWriteDone
  \/ StampStart \/ StartMkdirDone
  \/ ScanReaddirDone \/ ScanReadFileDone

NextTurn ==
  \/ LoadAccessDone \/ LoadReadDone \/ SaveMkdirDone \/ SaveWriteDone
  \/ TurnStart \/ StartMkdirDone \/ TurnTimerFire
  \/ ScanReaddirDone \/ ScanReadFileDone

NextLive ==
  \/ LoadAccessDone \/ LoadReadDone \/ SaveMkdirDone \/ SaveWriteDone
  \/ LiveStart \/ LiveStop \/ StartMkdirDone \/ PeriodicScan
  \/ ScanReaddirDone \/ ScanReadFileDone

NextAnalytics == LoadAccessDone \/ LoadReadDone \/ GetAnalyticsCall

\* The store alone, called directly.
Spec == Init /\ [][Next]_vars

\* The completion monitor wired to the bus and the store.
SpecAdapter == InitAdapter /\ [][NextAdapter]_vars

\* The extension's logging switch and the chat monitor it creates.
SpecExtension == InitExtension /\ [][NextExtension]_vars

\* The logging switch among the text signals and the store's I/O.
SpecSwitch == InitExtension /\ [][NextSwitch]_vars

\* The completion monitor under single-span signals around the thresholds.
SpecClassify == InitAdapter /\ [][NextClassify]_vars

\* The completion monitor's start() and stop() among its signals.
SpecLifecycle == InitAdapter /\ [][NextLifecycle]_vars

\* The chat monitor's initial scan over a directory of one dated turn.
SpecStamp == InitStamp /\ [][NextStamp]_vars

\* The chat monitor over a directory of one turn.
SpecTurn == InitTurn /\ [][NextTurn]_vars

\* A readdir of a scan completes without an error.
ReaddirSucceeds ==
  \E t \in DOMAIN scanTasks :
    scanTasks[t].pc = "readdir" /\ Commit(scanReaddirDone(Cur, t, TRUE))

\* The readFile of the f-th directory entry completes without an error.
ReadFileSucceeds(f) ==
  \E t \in DOMAIN scanTasks :
    /\ scanTasks[t].pc = "readFile" /\ scanTasks[t].fileIdx = f
    /\ Commit(processSession(Cur, t, TRUE))

\* A mkdir or writeFile of the store is outstanding.
StoreWritePending ==
  \E i \in DOMAIN storeOps : storeOps[i].pc \in {"mkdir", "write"}

ReaddirPending == \E t \in DOMAIN scanTasks : scanTasks[t].pc = "readdir"

ReadFilePending(f) ==
  \E t \in DOMAIN scanTasks :
    scanTasks[t].pc = "readFile" /\ scanTasks[t].fileIdx = f

\* The chat monitor with its timer and no file-system notification.  The load
\* of the store and the mkdir of start() complete, the timer keeps firing
\* while it is armed, every mkdir and writeFile of the store completes, and
\* a readdir or a readFile of one file that is issued again and again
\* succeeds again and again.  The last four conjuncts are weak fairness of
\* the store's completions and strong fairness of the successful reads,
\* written with the condition under which the step can be taken spelled out
\* as a state predicate.
SpecLive ==
  /\ InitLive /\ [][NextLive]_vars
  /\ WF_vars(LoadAccessDone) /\ WF_vars(LoadReadDone)
  /\ WF_vars(StartMkdirDone)
  /\ SF_vars(PeriodicScan)
  /\ ([]<>(~StoreWritePending) \/ []<><<SaveMkdirDone \/ SaveWriteDone>>_vars)
  /\ (<>[](~ReaddirPending) \/ []<><<ReaddirSucceeds>>_vars)
  /\ (<>[](~ReadFilePending(1)) \/ []<><<ReadFileSucceeds(1)>>_vars)
  /\ (<>[](~ReadFilePending(2)) \/ []<><<ReadFileSucceeds(2)>>_vars)

\* The store loaded from a file and asked for its analytics.
SpecAnalytics == InitAnalytics /\ [][NextAnalytics]_vars

\* The bus with arbitrary handlers.
SpecBus == InitBus /\ [][NextBus]_vars

\* The chat monitor wired to the bus and the store.
SpecChat == InitChat /\ [][NextChat]_vars

\* ------------------------------------------------------------------------
\* Claims
\* ------------------------------------------------------------------------
IsSuffix(a, b) ==
  Len(a) <= Len(b) /\ a = SubSeq(b, Len(b) - Len(a) + 1, Len(b))

NoDuplicates(seq) ==
  \A i, j \in DOMAIN seq : i # j => seq[i] # seq[j]

\* A step in which at least one saveInteraction call pushes its record.
PushHappens ==
  \/ loadPc = "done" /\ appendLog' # appendLog
  \/ /\ loadPc # "done" /\ loadPc' = "done"
     /\ \E i \in DOMAIN storeOps : storeOps[i].op = "saveInteraction"

C2_UniqueIds ==
  NoDuplicates([i \in DOMAIN interactions |-> interactions[i].id])

\* C3: a chat turn identified by file:requestId (requestId present, the
\* processed set below its cap) is published at most once, for every
\* interleaving of the scans.
C3_TurnPublishedOnce ==
  Len(processed) < MAX_TRACKED =>
    \A i, j \in DOMAIN published :
      (/\ i # j
       /\ published[i].type = "chat" /\ published[j].type = "chat"
       /\ published[i].metadata.requestId # <<>>)
      => ~(/\ published[i].metadata.requestId = published[j].metadata.requestId
           /\ published[i].metadata.sourcePath = published[j].metadata.sourcePath)

\* C4: a scan that runs after a complete scan of the unchanged directory
\* publishes no Interaction.
C4_RescanPublishesNothing == ~sequelPublished

\* C5: after every request record handled the processed set holds at most
\* MAX_TRACKED keys, and the keys evicted are the oldest-inserted ones.
C5_ProcessedBounded ==
  [][/\ Len(processed') <= MAX_TRACKED
     /\ \A i, j \in DOMAIN processed :
          (i < j /\ processed[i] \in Range(processed'))
          => processed[j] \in Range(processed')]_vars

\* C6: once stop() has been called and the in-flight operations have
\* settled, no watcher and no timer is active (so no scan is triggered)
\* until start() is called again.
C6_StopLeavesNoHandle ==
  (lastLifecycle = "stop" /\ DOMAIN startTasks = {} /\ DOMAIN scanTasks = {})
  => (liveWatchers = {} /\ liveTimers = {})

\* C7: at most one watcher and at most one timer are live, and every live
\* handle is the one recorded in the monitor's fields.
C7_OneHandleEach ==
  /\ Cardinality(liveWatchers) <= 1 /\ Cardinality(liveTimers) <= 1
  /\ liveWatchers \subseteq {watcher} /\ liveTimers \subseteq {rescanTimer}

\* The text-mutation signal e is delivered in this step.
TextChangeOf(e) ==
  /\ nCalls' = nCalls + 1
  /\ "onDidChangeTextDocument" \in Range(disposables)
  /\ Commit(onTextChange(Called(Cur), e))

\* The first insertion of the signal that the heuristic accepts.
RECURSIVE FirstPositive(_)
FirstPositive(changes) ==
  IF isLikelyAI(Head(changes).text) THEN Head(changes)
  ELSE FirstPositive(Tail(changes))

\* The invocation t of onTextChange continues in this step.
Resumed(t) == t \notin DOMAIN textTasks' \/ textTasks'[t] # textTasks[t]

\* The last published Interaction is the only one this step publishes.
PublishesOne == Len(published') = Len(published) + 1

\* The pending map as the resumed invocation t finds it: without the key of
\* its matched insertion.
PendingAtResume(t) ==
  IF textTasks[t].matched
  THEN Without(pendingSuggestions,
               Key(textTasks[t].document, textTasks[t].change.line))
  ELSE pendingSuggestions

\* What C8 says of the insertion change matched with the entry pending.
MatchedPublished(change, pending) ==
  LET last == published'[Len(published')]
  IN /\ PublishesOne
     /\ last.accepted = TRUE
     /\ last.prompt = pending.contextBefore
     /\ last.response = change.text
     /\ last.latency = now - pending.startTime

\* What C8 says of a matched insertion of the signal e.
MatchedOutcome(e) ==
  LET change == FirstPositive(e.contentChanges)
  IN MatchedPublished(change,
                      pendingSuggestions[Key(e.document, change.line)])

\* The same for the next accepted insertion of a resumed invocation, when a
\* pending entry exists for it.
MatchedOnResume ==
  \A t \in DOMAIN textTasks :
    (Resumed(t) /\ Positives(textTasks[t].rest) > 0) =>
      LET change == FirstPositive(textTasks[t].rest)
          key == Key(textTasks[t].document, change.line)
      IN key \in DOMAIN PendingAtResume(t)
           => MatchedPublished(change, PendingAtResume(t)[key])

\* When the publish of a matched Interaction has settled, the pending entry
\* of its key is gone.
MatchedEntryRemoved ==
  \A t \in DOMAIN textTasks :
    (textTasks[t].matched /\ Resumed(t))
    => Key(textTasks[t].document, textTasks[t].change.line)
         \notin DOMAIN pendingSuggestions'

\* C8 (as stated): an accepted insertion at line L of document D while a
\* pending suggestion for (D, L) exists publishes exactly one Interaction,
\* accepted, with the pending context as prompt, the inserted text as
\* response and latency now - startTime, and the pending entry is removed.
C8_MatchedInsertion ==
  [][/\ nCalls' # nCalls => \A e \in TextEvents :
          (/\ Positives(e.contentChanges) > 0
           /\ Key(e.document, FirstPositive(e.contentChanges).line)
                \in DOMAIN pendingSuggestions
           /\ TextChangeOf(e))
          => MatchedOutcome(e)
     /\ MatchedOnResume
     /\ MatchedEntryRemoved]_vars

\* C8 (amended): the same, for a document that is not untitled.
C8_MatchedInsertionTitled ==
  [][/\ nCalls' # nCalls => \A e \in TextEvents :
          (/\ ~e.document.isUntitled
           /\ Positives(e.contentChanges) > 0
           /\ Key(e.document, FirstPositive(e.contentChanges).line)
                \in DOMAIN pendingSuggestions
           /\ TextChangeOf(e))
          => MatchedOutcome(e)
     /\ MatchedOnResume
     /\ MatchedEntryRemoved]_vars

\* C8 witness: armed at line 5, the two-line insertion of 40 characters two
\* seconds later has been published with latency 2000 and the entry is gone.
C8_Witness ==
  /\ DOMAIN textTasks = {}
  /\ Key(FileDocument, 5) \notin DOMAIN pendingSuggestions
  /\ \E i \in DOMAIN published :
       /\ published[i].latency = 2000 /\ published[i].prompt = Foo
       /\ published[i].response = TwoLines40 /\ published[i].lineNumber = 5
       /\ published[i].accepted

UnmatchedPublished(change, before) ==
  LET last == published'[Len(published')]
  IN /\ PublishesOne
     /\ last.accepted = TRUE
     /\ last.prompt = <<>>
     /\ last.response = change.text
     /\ last.latency = 0
     /\ pendingSuggestions' = before

\* What C10 says of an unmatched insertion of the signal e.
UnmatchedOutcome(e) ==
  UnmatchedPublished(FirstPositive(e.contentChanges), pendingSuggestions)

\* The same for the next accepted insertion of a resumed invocation, when no
\* pending entry exists for it.
UnmatchedOnResume ==
  \A t \in DOMAIN textTasks :
    (Resumed(t) /\ Positives(textTasks[t].rest) > 0) =>
      LET change == FirstPositive(textTasks[t].rest)
          key == Key(textTasks[t].document, change.line)
      IN key \notin DOMAIN PendingAtResume(t)
           => UnmatchedPublished(change, PendingAtResume(t))

\* The resumption of an unmatched insertion with no accepted insertion left
\* in its signal leaves the pending map as it is.
UnmatchedLeavesPending ==
  \A t \in DOMAIN textTasks :
    (~textTasks[t].matched /\ Positives(textTasks[t].rest) = 0 /\ Resumed(t))
    => pendingSuggestions' = pendingSuggestions

\* C10 (as stated): an accepted insertion while the monitor is running and
\* no pending suggestion exists for (document, line) publishes exactly one
\* Interaction with empty prompt, latency 0 and accepted, and leaves the
\* pending map unchanged.
C10_UnmatchedInsertion ==
  [][/\ nCalls' # nCalls => \A e \in TextEvents :
          (/\ isRunning
           /\ Positives(e.contentChanges) > 0
           /\ Key(e.document, FirstPositive(e.contentChanges).line)
                \notin DOMAIN pendingSuggestions
           /\ TextChangeOf(e))
          => UnmatchedOutcome(e)
     /\ UnmatchedOnResume
     /\ UnmatchedLeavesPending]_vars

\* C10 (amended): the same, for a document that is not untitled.
C10_UnmatchedInsertionTitled ==
  [][/\ nCalls' # nCalls => \A e \in TextEvents :
          (/\ isRunning
           /\ ~e.document.isUntitled
           /\ Positives(e.contentChanges) > 0
           /\ Key(e.document, FirstPositive(e.contentChanges).line)
                \notin DOMAIN pendingSuggestions
           /\ TextChangeOf(e))
          => UnmatchedOutcome(e)
     /\ UnmatchedOnResume
     /\ UnmatchedLeavesPending]_vars

\* C10 witness: an insertion that matched nothing has been published with
\* empty prompt and latency 0 while the monitor runs, and has settled.
C10_Witness ==
  /\ isRunning
  /\ DOMAIN textTasks = {}
  /\ \E i \in DOMAIN published :
       /\ published[i].prompt = <<>> /\ published[i].latency = 0
       /\ published[i].response = TwoLines40 /\ published[i].accepted

\* The signal e, which carries one span, is delivered in this step.
SpanChangeOf(e) ==
  /\ nCalls' = nCalls + 1
  /\ "onDidChangeTextDocument" \in Range(disposables)
  /\ Commit(onTextChange(Called(Cur), e))

HasLineBreak(text) == \E i \in DOMAIN text : text[i] = "\n"

\* The classification as the claim words it.
Classified(text) ==
  \/ HasLineBreak(text) /\ Len(text) > 20
  \/ ~HasLineBreak(text) /\ Len(text) > 50

\* C11: a span is classified (published, in a running monitor and a document
\* that is not untitled) if and only if it has a line break and more than 20
\* characters or no line break and more than 50; a span that is not
\* classified publishes nothing and leaves every pending entry untouched.
C11_Classification ==
  [][nCalls' # nCalls => \A e \in SpanEvents :
       SpanChangeOf(e) =>
         LET text == e.contentChanges[1].text
         IN /\ (isRunning /\ ~e.document.isUntitled)
                 => (Len(published') = Len(published) + 1 <=> Classified(text))
            /\ ~Classified(text)
                 => (published' = published
                     /\ pendingSuggestions' = pendingSuggestions)]_vars

\* C11 witness: the 51-character single-line span and the 21-character
\* two-line span have both been published, and no other span has been.
C11_Witness ==
  /\ Len(published) = 2
  /\ \E i, j \in DOMAIN published :
       /\ published[i].response = Repeat("x", 51)
       /\ published[j].response = Multi21

\* The invocations made by the emit() call c, in order.
InvocationsOf(c) == SelectSeq(invocations, LAMBDA v : v.call = c)

\* The number of occurrences of the handler h in the sequence seq.
Count(seq, h) == Cardinality({i \in DOMAIN seq : seq[i] = h})

\* The call c has invoked each handler registered for its event type when
\* it was made once per registration, and no other handler.
InvokedAsRegistered(c) ==
  LET mine == InvocationsOf(c)
      invoked == [i \in DOMAIN mine |-> mine[i].listener]
  IN \A h \in Handlers : Count(invoked, h) = Count(atCall[c], h)

\* C12: emit invokes every handler registered for the event type at call
\* time exactly once with the payload, and no handler of another event type;
\* it completes only after every one of those invocations has settled.
C12_EmitInvokesAllAndWaits ==
  \A c \in DOMAIN calls :
    LET mine == InvocationsOf(c)
    IN /\ InvokedAsRegistered(c)
       /\ \A i \in DOMAIN mine : mine[i].data = calls[c].data
       /\ calls[c].state # "pending"
            => \A i \in DOMAIN mine : mine[i].state # "pending"

\* C12 witness: an emit has completed after invoking a synchronous handler
\* and an asynchronous one, while a handler of the other event type was
\* registered and not invoked.
C12_Witness ==
  \E c \in DOMAIN calls :
    /\ calls[c].state = "resolved"
    /\ calls[c].eventType = "interaction"
    /\ registry["other"] # <<>>
    /\ Len(InvocationsOf(c)) = 2
    /\ \E i \in DOMAIN InvocationsOf(c) :
         InvocationsOf(c)[i].listener = "resolves"

\* C13: when a handler raises during an emit (by throwing or by a rejected
\* promise), every other handler registered for the event type is still
\* invoked, and the emit completes normally once all have settled: it never
\* rejects.
C13_RaisingHandlerIsolated ==
  \A c \in DOMAIN calls :
    LET mine == InvocationsOf(c)
    IN (\E i \in DOMAIN mine : mine[i].listener \in {"throws", "rejects"})
       => /\ InvokedAsRegistered(c)
          /\ calls[c].state # "rejected"
          /\ (\A i \in DOMAIN mine : mine[i].state = "fulfilled")
               => calls[c].state = "resolved"

\* C13 witness: an emit whose first handler throws and whose second rejects
\* has invoked a third handler and has completed normally.
C13_Witness ==
  \E c \in DOMAIN calls :
    /\ calls[c].state = "resolved"
    /\ atCall[c] = <<"throws", "rejects", "resolves">>
    /\ Len(InvocationsOf(c)) = 3
    /\ logged = 2

\* The records of the backing file, when it holds a JSON array.
FileRecords == IF disk.kind = "array" THEN Parse(disk.data) ELSE <<>>

\* The last n entries of the list.
LastN(list, n) ==
  IF Len(list) > n THEN SubSeq(list, Len(list) - n + 1, Len(list)) ELSE list

\* Nothing issued before the load has completed has taken effect.
NothingBeforeLoad ==
  loadPc # "done" =>
    /\ interactions = <<>> /\ exportFile = NoFile
    /\ \A i \in DOMAIN storeOps : storeOps[i].pc = "load"

\* One saveInteraction call, and nothing else, awaits the load.
OneEarlyAppend ==
  /\ loadPc # "done" /\ Len(storeOps) = 1
  /\ storeOps[1].op = "saveInteraction"

\* The load ends in this step after a read that succeeded (ok) or failed.
LoadEndsAfterRead(ok) == loadPc = "read" /\ Commit(loadReadDone(Cur, ok))

AccessSettles(ok) == loadPc = "access" /\ Commit(loadAccessDone(Cur, ok))

\* C15: the load never fails to its caller and ends with the empty list
\* when the file is absent, unreadable, unparsable or not an array, with the
\* last cap entries of an array longer than the cap, and with the array as
\* stored otherwise.
C15_LoadOutcome ==
  [][storeOps = <<>> => \A ok \in BOOLEAN :
       /\ (AccessSettles(ok) /\ (~ok \/ disk.kind = "absent"))
            => (loadPc' = "done" /\ interactions' = <<>>)
       /\ LoadEndsAfterRead(ok)
            => /\ loadPc' = "done"
               /\ interactions' =
                    IF ok /\ disk.kind = "array"
                    THEN LastN(Parse(disk.data), maxInteractions)
                    ELSE <<>>]_vars

\* The persisting of the append i fails in this step, at fs.mkdir or at
\* fs.writeFile.
PersistFails(i) ==
  /\ storeOps[i].op = "saveInteraction"
  /\ \/ storeOps[i].pc = "mkdir" /\ Commit(saveMkdirDone(Cur, i, FALSE))
     \/ storeOps[i].pc = "write" /\ Commit(saveWriteDone(Cur, i, FALSE))

\* C16: when persisting fails during an append, the append completes
\* without raising and the list keeps what it held; the record has been
\* placed at the end of the list when it was pushed (with a cap of at
\* least 1).
C16_AppendSurvivesDiskFailure ==
  [][/\ \A i \in DOMAIN storeOps :
          PersistFails(i) =>
            /\ rejections' = 0
            /\ Len(storeOps') = Len(storeOps) - 1
            /\ interactions' = interactions
     /\ (appendLog' # appendLog /\ appendLog' # <<>> /\ maxInteractions' >= 1
          /\ \E i \in DOMAIN storeOps' : storeOps'[i].op = "saveInteraction")
          => (interactions' # <<>>
              => interactions'[Len(interactions')] = appendLog'[Len(appendLog')])]_vars

\* C16 witness: the append has completed, the list holds the loaded record
\* and the appended one, and the backing file is as it was: the write failed.
C16_Witness ==
  /\ storeOps = <<>> /\ nCalls = 1 /\ rejections = 0
  /\ Len(interactions) = 2 /\ interactions[1] = Stored(1)[1]
  /\ disk.data = Stringify(Stored(1))

\* The records of list that were appended in this session (identifiers are
\* drawn in call order, 1, 2, ...), as the sequence of their identifiers.
RECURSIVE SessionIds(_)
SessionIds(list) ==
  IF list = <<>> THEN <<>>
  ELSE IF list[1].id > 0 THEN <<list[1].id>> \o SessionIds(Tail(list))
  ELSE SessionIds(Tail(list))

Increasing(ids) == \A i, j \in DOMAIN ids : i < j => ids[i] < ids[j]

\* The call of the append i returns in this step.
AppendReturns(i) ==
  /\ storeOps[i].op = "saveInteraction"
  /\ storeOps' = RemoveAt(storeOps, i)

\* C17: appended records stand in the list in call order, whether the calls
\* were made before or after the load completed, and the call of an append
\* returns only once its record has been placed in the list and the write
\* has been attempted (fs.mkdir failed, or fs.writeFile has settled), so a
\* caller that awaits it starts the next append after that.
C17_AppendsInCallOrder ==
  [][/\ Increasing(SessionIds(interactions'))
     /\ Increasing(SessionIds(appendLog'))
     /\ \A i \in DOMAIN storeOps :
          AppendReturns(i) =>
            /\ storeOps[i].arg \in Range(appendLog)
            /\ storeOps[i].pc \in {"mkdir", "write"}]_vars

\* C17 witness: two appends called before the load completed have both been
\* placed, after the loaded record and in call order.
C17_Witness ==
  /\ loadPc = "done" /\ Len(storeOps) = 2
  /\ \A i \in DOMAIN storeOps :
       storeOps[i].op = "saveInteraction" /\ storeOps[i].early
  /\ Len(interactions) = 3 /\ SessionIds(interactions) = <<1, 2>>

\* C18: setMaxInteractions(n) changes the cap and nothing else, also when n
\* is below the length of the list, and the next append leaves the list as
\* the most recent n entries of the list with the record added.
C18_SetCapOnlyChangesCap ==
  [][/\ \A max \in Caps :
          Commit(setMaxInteractions(Called(Cur), max)) =>
            /\ maxInteractions' = max
            /\ interactions' = interactions /\ disk' = disk
            /\ storeOps' = storeOps /\ loadPc' = loadPc
            /\ exportFile' = exportFile
     /\ \A x \in StoreInputs(nextUuid) :
          (loadPc = "done"
           /\ Commit(saveInteraction([Called(Cur) EXCEPT !.nextUuid = @ + 1],
                                     x, NoOwner)))
            => interactions' = LastN(Append(interactions, x), maxInteractions)]_vars

EmptyArray == [kind |-> "array", data |-> Stringify(<<>>)]

\* C19: once a clearLogs has returned with its write done, and as long as no
\* append has been called since that clearLogs was called, the list is
\* empty, the backing file holds the empty array, and no call was rejected.
C19_ClearedStaysCleared ==
  (cleared > 0 /\ nextUuid = cleared) =>
    /\ interactions = <<>>
    /\ disk = EmptyArray
    /\ rejections = 0

\* The export i, of extension .json, serialises the list in this step.
ExportSerialises(i) ==
  /\ storeOps[i].op = "exportLogs" /\ storeOps[i].ext = ".json"
  /\ storeOps[i].pc = "mkdir"
  /\ Commit(saveMkdirDone(Cur, i, TRUE))

\* The export i, of extension .json, has its file written in this step.
ExportWritten(i) ==
  /\ storeOps[i].op = "exportLogs" /\ storeOps[i].ext = ".json"
  /\ storeOps[i].pc = "write"
  /\ Commit(saveWriteDone(Cur, i, TRUE))

Supported(ext) == ToLowerCase(ext) \in {".json", ".csv"}

\* The export i takes its step at fs.mkdir or at fs.writeFile, the call
\* succeeding (ok) or failing.
ExportStep(i, ok) ==
  /\ storeOps[i].op = "exportLogs"
  /\ \/ storeOps[i].pc = "mkdir" /\ Commit(saveMkdirDone(Cur, i, ok))
     \/ storeOps[i].pc = "write" /\ Commit(saveWriteDone(Cur, i, ok))

\* C21: an export to a destination whose extension is neither .json nor
\* .csv, whatever the case of its letters, writes no file, changes neither
\* the list, the cap nor the backing file, and returns without raising; an
\* export of a supported extension whose fs.mkdir or fs.writeFile fails
\* returns without raising and writes nothing either.
C21_UnsupportedExportIsNoOp ==
  [][/\ \A i \in DOMAIN storeOps : \A ok \in BOOLEAN :
          (ExportStep(i, ok) /\ (~Supported(storeOps[i].ext) \/ ~ok)) =>
            /\ storeOps' = RemoveAt(storeOps, i)
            /\ rejections' = 0
            /\ exportFile' = exportFile /\ disk' = disk
            /\ interactions' = interactions
            /\ maxInteractions' = maxInteractions
     /\ \A ext \in Extensions :
          Commit(exportLogs(Called(Cur), ext, NoOwner)) =>
            /\ Supported(storeOps'[Len(storeOps')].ext) = Supported(ext)
            /\ exportFile' = exportFile /\ disk' = disk
            /\ interactions' = interactions
            /\ maxInteractions' = maxInteractions]_vars

\* C21 witness: the only call made was one that drew no identifier, kept the
\* list of one loaded record and the cap, and it has returned with no file
\* at the destination: an export that was unsupported or that failed.
C21_Witness ==
  /\ nCalls = 1 /\ storeOps = <<>> /\ nextUuid = 1 /\ rejections = 0
  /\ interactions = Stored(1) /\ maxInteractions = DefaultMaxInteractions
  /\ exportFile = NoFile

\* The active editor changes in this step.
EditorChangeStep ==
  /\ nCalls' = nCalls + 1
  /\ "onDidChangeActiveTextEditor" \in Range(disposables)
  /\ Commit(onEditorChange(Called(Cur)))

\* A change of the active editor while the monitor runs empties the pending
\* map, whatever the age and the document of its entries, and publishes
\* nothing.
EditorChangeEmpties ==
  (isRunning /\ EditorChangeStep) =>
    (pendingSuggestions' = <<>> /\ published' = published /\ isRunning')

\* C22 (as stated): a change of the active editor while the monitor runs
\* empties the pending map, and an accepted insertion that arrives while the
\* map is empty is published as unmatched: empty prompt, latency 0.
C22_EditorChangeClears ==
  [][/\ EditorChangeEmpties
     /\ (nCalls' # nCalls /\ isRunning /\ pendingSuggestions = <<>>) =>
          \A e \in TextEvents :
            (Positives(e.contentChanges) > 0 /\ TextChangeOf(e))
              => UnmatchedOutcome(e)]_vars

\* C22 (amended): the same, the insertion being in a document that is not
\* untitled.
C22_EditorChangeClearsTitled ==
  [][/\ EditorChangeEmpties
     /\ (nCalls' # nCalls /\ isRunning /\ pendingSuggestions = <<>>) =>
          \A e \in TextEvents :
            (/\ ~e.document.isUntitled
             /\ Positives(e.contentChanges) > 0 /\ TextChangeOf(e))
              => UnmatchedOutcome(e)]_vars

\* C22 witness: a suggestion was armed (it drew identifier 1), the map has
\* been emptied, and the insertion at the armed line that followed at the
\* same instant has been published as unmatched.
C22_Witness ==
  /\ isRunning /\ pendingSuggestions = <<>> /\ DOMAIN textTasks = {}
  /\ now = 0 /\ Len(published) = 1
  /\ published[1].id = 2 /\ published[1].prompt = <<>>
  /\ published[1].latency = 0 /\ published[1].lineNumber = 5
  /\ published[1].filePath = FileDocument.uri

\* start() is called in this step, the assistant extension being present
\* or not.
StartOf(copilotPresent) ==
  /\ nCalls' = nCalls + 1
  /\ Commit([CopilotAdapter_start(Called(Cur), copilotPresent)
               EXCEPT !.lastStart = lastStart'])

\* The handlers of the three signals leave the state s as it is.
SignalsDoNothing(s) ==
  /\ \A document \in Documents, line \in Lines, contextBefore \in Contexts :
       onSelectionChange(s, document, line, contextBefore) = s
  /\ \A e \in TextEvents \cup SpanEvents : onTextChange(s, e) = s
  /\ onEditorChange(s) = s

\* C23: start() on a running monitor changes nothing and subscribes to
\* nothing; start() with the assistant extension absent leaves the monitor
\* not running and without subscription, and nothing else changed; and a
\* monitor that is not running has no subscription and its signal handlers
\* arm nothing and publish nothing.
C23_StartIsNoOp ==
  [][/\ \A copilotPresent \in BOOLEAN :
          (StartOf(copilotPresent) /\ (isRunning \/ ~copilotPresent)) =>
            /\ isRunning' = isRunning /\ disposables' = disposables
            /\ pendingSuggestions' = pendingSuggestions
            /\ published' = published /\ textTasks' = textTasks
            /\ nextUuid' = nextUuid /\ storeOps' = storeOps
            /\ interactions' = interactions
     /\ ~isRunning => (disposables = <<>> /\ SignalsDoNothing(Cur))]_vars

\* C23 witness: the last start() found the assistant extension absent, and
\* the monitor is not running and holds no subscription.
C23_Witness ==
  /\ lastStart = "aborted" /\ ~isRunning /\ disposables = <<>>
  /\ pendingSuggestions = <<>>

\* stop() is called in this step.
StopStep ==
  /\ nCalls' = nCalls + 1
  /\ Commit(CopilotAdapter_stop(Called(Cur)))

\* C24: stop() leaves the monitor not running, without subscription and
\* with an empty pending map, a second stop() changes nothing, and while the
\* monitor is not running no step creates a pending entry or publishes an
\* Interaction, the steps of an onTextChange that was in flight at the
\* stop() included.
C24_StopQuiesces ==
  [][/\ StopStep =>
          /\ ~isRunning' /\ disposables' = <<>> /\ pendingSuggestions' = <<>>
          /\ published' = published
          /\ ~isRunning =>
                (pendingSuggestions' = pendingSuggestions
                 /\ textTasks' = textTasks /\ nextUuid' = nextUuid)
     /\ (~isRunning /\ ~isRunning') =>
          (published' = published /\ pendingSuggestions' = <<>>)]_vars

\* stop() of the chat monitor is called in this step.
ChatStopStep ==
  /\ nCalls' = nCalls + 1
  /\ Commit(CopilotChatMonitor_stop(Called(Cur)))

\* C25: stop() leaves the processed-key set as it is, and the scan of a
\* start() called after it publishes no turn (requestId present, no key
\* evicted) that was published before the stop().
C25_StopKeepsProcessed ==
  [][/\ ChatStopStep => processed' = processed
     /\ ~republished']_vars

\* processSession, for the scan t, has read its file in this step.
ReadFileStep(t) ==
  /\ scanTasks[t].pc = "readFile"
  /\ Commit(processSession(Cur, t, TRUE))

\* What C26 says of the first request record of the file the scan t reads.
FirstRecordHandled(t) ==
  LET entry == dir[scanTasks[t].fileIdx]
      request == entry.doc.requests[1]
      prompt == Trim(Flatten(request.text))
      response == extractResponseText(request.response)
      key == UniqueId(entry.name, request, nextUuid)
      last == published'[Len(published')]
  IN IF key \in Range(processed)
     THEN published' = published /\ processed' = processed
     ELSE IF prompt = <<>> /\ response = <<>>
     THEN published' = published /\ key \in Range(processed')
     ELSE /\ Len(published') = Len(published) + 1
          /\ last.type = "chat" /\ last.accepted = TRUE /\ last.latency = 0
          /\ last.prompt = prompt /\ last.response = response
          /\ last.metadata.requestId = request.requestId

\* C26: a request record whose trimmed prompt and extracted response are
\* both empty is not published and its key is put in the processed set; a
\* record whose key is in the set is skipped; every other record is
\* published with type chat, accepted and latency 0; and no published chat
\* Interaction has both prompt and response empty.
C26_EmptyTurnSkipped ==
  [][/\ \A t \in DOMAIN scanTasks :
          (ReadFileStep(t) /\ Len(dir[scanTasks[t].fileIdx].doc.requests) = 1)
            => FirstRecordHandled(t)
     /\ \A i \in DOMAIN published' :
          published'[i].type = "chat" =>
            (published'[i].prompt # <<>> \/ published'[i].response # <<>>)]_vars

\* C26 witness: a scan has put the turn r1, whose prompt and response are
\* blank, in the processed set and has published nothing; start() has
\* finished and the timer is armed.
C26_Witness ==
  /\ dir[1].doc.requests[1].text = <<Blank>>
  /\ dir[1].doc.requests[1].response = <<ValuePart(Blank)>>
  /\ processed = <<[file |-> "s1.json", requestId |-> "r1", uuid |-> 0]>>
  /\ published = <<>> /\ rescanTimer # 0
  /\ DOMAIN scanTasks = {} /\ DOMAIN startTasks = {}

\* The optional value is present and valid.
Valid(optional) == optional # <<>> /\ optional[1].ok

\* The sources of a timestamp in the order of C28, the current time last.
StampSources(request, doc, time) ==
  <<request.timestamp, doc.lastMessageDate, doc.creationDate,
    <<[ok |-> TRUE, n |-> time]>>>>

\* The value of the first valid source.
FirstValid(sources) ==
  LET k == CHOOSE k \in DOMAIN sources :
             Valid(sources[k]) /\ \A j \in 1..(k - 1) : ~Valid(sources[j])
  IN sources[k][1].n

\* C28: the timestamp of a published chat Interaction is the value of the
\* first valid source among the request's timestamp, the session's
\* last-message date, its creation date and the current time.
C28_TimestampOrder ==
  \A i \in DOMAIN published :
    published[i].type = "chat" =>
      published[i].timestamp =
        FirstValid(StampSources(dir[1].doc.requests[1], dir[1].doc, now))

\* C28 witness: the request's timestamp is invalid and the last-message
\* date is missing, and the turn has been published with the creation date.
C28_Witness ==
  /\ dir[1].doc.requests[1].timestamp = <<[ok |-> FALSE, n |-> 0]>>
  /\ dir[1].doc.lastMessageDate = <<>>
  /\ Valid(dir[1].doc.creationDate)
  /\ Len(published) = 1 /\ published[1].timestamp = 8

\* The monitor is started and not stopped: its timer is armed.
Running == rescanTimer # 0

\* Every request record of a parsable .json file of the directory that has
\* a prompt or a response has been published.
AllPublished ==
  \A i \in DOMAIN dir :
    (dir[i].json /\ dir[i].doc.parsable /\ dir[i].doc.hasRequests) =>
      \A j \in DOMAIN dir[i].doc.requests :
        LET request == dir[i].doc.requests[j]
        IN (Trim(Flatten(request.text)) # <<>>
            \/ extractResponseText(request.response) # <<>>)
           => \E k \in DOMAIN published :
                /\ published[k].metadata.requestId = request.requestId
                /\ published[k].metadata.sourcePath = dir[i].name

\* C27: while the monitor is running, every request record with a prompt
\* or a response in a parsable .json file of the directory is eventually
\* published, with no file-system notification delivered.
C27_EventuallyPublished == Running ~> (AllPublished \/ ~Running)

\* C27 witness: the monitor is running and the turn of the session file that
\* follows an unparsable one in the directory has been published.
C27_Witness ==
  /\ Running /\ AllPublished /\ Len(dir) = 2 /\ dir[1].json
  /\ Len(published) >= 1

\* C30: a text mutation that arrives more than 30 s after a pending
\* suggestion was armed does not consume it: every published Interaction
\* reports a latency of at most 30 s (the unmatched path reports 0).
C30_MatchedWithinTtl ==
  \A k \in DOMAIN published : published[k].latency <= PendingTtl

\* The nearest integer to the exact quotient a / n, a tie going up.
Rounded(a, n) == (2 * a + n) \div (2 * n)

\* What C29 says getAnalytics returns for the list.
Expected(list) ==
  LET total == Len(list)
      accepted == Cardinality({i \in DOMAIN list : list[i].accepted})
  IN [totalInteractions |-> total,
      averageLatency |->
        IF total = 0 THEN 0 ELSE Rounded(SumLatency(list, total), total),
      acceptanceRate |->
        IF total = 0 THEN 0 ELSE Rounded(100 * accepted, total)]

\* C29: getAnalytics returns the length of the list, the rounded mean of
\* the latencies and the rounded percentage of accepted records, 0 for both
\* when the list is empty, and leaves the list as it is.
C29_Analytics ==
  [][GetAnalyticsCall =>
       /\ analytics' = Expected(interactions)
       /\ interactions' = interactions]_vars

\* C34: once the load and every store operation issued have completed, at
\* least one append or clear among them and no mkdir or writeFile of a save
\* having failed, the backing file holds the in-memory list.
C34_FileEqualsList ==
  (loadPc = "done" /\ storeOps = <<>> /\ saved = "written") =>
    disk = [kind |-> "array", data |-> Stringify(interactions)]

\* The cursor settles at the line of the document in this step.
SelectionChangeStep(document, line, contextBefore) ==
  /\ nCalls' = nCalls + 1
  /\ "onDidChangeTextEditorSelection" \in Range(disposables)
  /\ Commit(onSelectionChange(Called(Cur), document, line, contextBefore))

\* C33: after a cursor-settle signal handled while the monitor runs, the
\* pending map holds an entry for the (document, line) just armed, created at
\* this instant under a fresh identifier, and holds no entry older than the
\* window; the map being a function of the key, it holds one entry per key.
C33_ArmedAndSwept ==
  [][\A document \in Documents, line \in Lines, contextBefore \in Contexts :
       (isRunning /\ SelectionChangeStep(document, line, contextBefore)) =>
         /\ Key(document, line) \in DOMAIN pendingSuggestions'
         /\ pendingSuggestions'[Key(document, line)] =
              [id |-> nextUuid, startTime |-> now,
               contextBefore |-> contextBefore]
         /\ \A k \in DOMAIN pendingSuggestions' :
              now - pendingSuggestions'[k].startTime <= PendingTtl
         /\ \A k \in DOMAIN pendingSuggestions' \ {Key(document, line)} :
              /\ k \in DOMAIN pendingSuggestions
              /\ pendingSuggestions'[k] = pendingSuggestions[k]]_vars

\* C33 witness: the second suggestion armed, at 31 s in the untitled
\* document, is the only entry of the map, nothing having been published or
\* cleared: the entry armed before it has been swept or replaced.
C33_Witness ==
  /\ isRunning /\ now = 31000 /\ published = <<>> /\ DOMAIN textTasks = {}
  /\ DOMAIN pendingSuggestions = {Key(UntitledDocument, 5)}
  /\ pendingSuggestions[Key(UntitledDocument, 5)].id = 2
  /\ pendingSuggestions[Key(UntitledDocument, 5)].startTime = 31000

\* The identifiers of the Interactions published so far.
PublishedIds == {published[i].id : i \in DOMAIN published}

\* C35: when the publish of a matched Interaction has settled and its
\* invocation continues, an entry armed for the same (document, line) during
\* the publish, one whose identifier no published Interaction carries, is
\* still in the pending map.
C35_RearmedEntryKept ==
  [][\A t \in DOMAIN textTasks :
       LET key == Key(textTasks[t].document, textTasks[t].change.line)
       IN (/\ textTasks[t].matched /\ Resumed(t)
           /\ key \in DOMAIN pendingSuggestions
           /\ pendingSuggestions[key].id \notin PublishedIds)
          => /\ key \in DOMAIN pendingSuggestions'
             /\ pendingSuggestions'[key] = pendingSuggestions[key]]_vars

\* The request records of the directory that the key k stands for: those of
\* the file of that name with the key's requestId, or without one when the
\* key carries a generated identifier.
TurnsOf(k) ==
  {request \in UNION {Range(dir[i].doc.requests) :
                        i \in {j \in DOMAIN dir : dir[j].name = k.file}} :
     IF k.uuid = 0 THEN request.requestId = <<k.requestId>>
     ELSE request.requestId = <<>>}

\* The turn has a prompt or a response after trimming.
NonEmptyTurn(request) ==
  ~IsEmptyTurn(Trim(Flatten(request.text)),
               extractResponseText(request.response))

\* An Interaction of the turn is among those published.
PublishedTurn(k, request) ==
  \E i \in DOMAIN published :
    /\ published[i].type = "chat"
    /\ published[i].metadata.sourcePath = k.file
    /\ published[i].metadata.requestId = request.requestId
    /\ published[i].prompt = Trim(Flatten(request.text))
    /\ published[i].response = extractResponseText(request.response)

\* A key of a non-empty turn enters the processed set in a step that
\* continues the scan that awaited the publish of that turn, the store's
\* append of the Interaction, pending before the step, having returned.
MarkedWhenSettled ==
  \A k \in Range(processed') \ Range(processed) :
    (\E request \in TurnsOf(k) : NonEmptyTurn(request)) =>
      \E t \in DOMAIN scanTasks :
        /\ scanTasks[t].pc = "emit" /\ scanTasks[t].key = k
        /\ \E i \in DOMAIN storeOps :
             /\ storeOps[i].owner = [kind |-> "scan", id |-> t]
             /\ \E j \in DOMAIN published : published[j] = storeOps[i].arg
             /\ \A m \in DOMAIN storeOps' :
                  storeOps'[m].op = "saveInteraction"
                    => storeOps'[m].arg.id # storeOps[i].arg.id

\* Every key of the processed set that stands for a non-empty turn has that
\* turn among the published Interactions.
MarkedIsPublished ==
  \A k \in Range(processed) :
    \A request \in TurnsOf(k) :
      NonEmptyTurn(request) => PublishedTurn(k, request)

\* C32: the key of a turn is added to the processed set only after the
\* publish of that turn's Interaction has settled, the store's append having
\* finished or failed; the key of a non-empty turn is never in the set while
\* the turn has not been published.
C32_MarkedAfterPublish ==
  [][MarkedWhenSettled /\ MarkedIsPublished']_vars

\* C32 witness: of the two turns of s1.json the blank r1 has been marked
\* without a publish and r2 has been published once and then marked, the
\* store's append and the scan having completed.
C32_Witness ==
  /\ Len(dir) = 1 /\ Len(dir[1].doc.requests) = 2
  /\ processed = <<[file |-> "s1.json", requestId |-> "r1", uuid |-> 0],
                   [file |-> "s1.json", requestId |-> "r2", uuid |-> 0]>>
  /\ Len(published) = 1 /\ published[1].metadata.requestId = <<"r2">>
  /\ storeOps = <<>> /\ DOMAIN scanTasks = {} /\ rescanTimer # 0

\* C36: once every in-flight invocation of the extension has settled and
\* the logging state applied last is disabled, no watcher and no timer of a
\* chat monitor is live and no retry timer is pending.
C36_QuietWhenDisabled ==
  (extTasks = <<>> /\ ~loggingEnabled) =>
    (liveWatchers = {} /\ liveTimers = {} /\ ~chatMonitorRetry)

\* C37: at most one CopilotChatMonitor instance is created per activation.
C37_OneInstance == Len(monitors) <= 1

\* The positions of the Interactions this step publishes.
NewlyPublished == {i \in DOMAIN published' : i > Len(published)}

\* The saveInteraction calls in flight for the Interaction of that id.
OpsOf(ops, id) ==
  {k \in DOMAIN ops : ops[k].op = "saveInteraction" /\ ops[k].arg.id = id}

\* How many times a record of that id has been placed in the list.
Placed(log, id) == Cardinality({i \in DOMAIN log : log[i].id = id})

\* The Interaction x, published in this step, is not appended: no
\* saveInteraction is called for it, the list is as before, and the backing
\* file is as before or has received a write issued earlier.
SkippedWhileDisabled(x) ==
  /\ OpsOf(storeOps', x.id) = {}
  /\ Placed(appendLog', x.id) = 0
  /\ interactions' = interactions
  /\ \/ disk' = disk
     \/ \E k \in DOMAIN storeOps :
          /\ storeOps[k].pc = "write"
          /\ disk' = [kind |-> "array", data |-> storeOps[k].data]

\* The Interaction x, published in this step, has one saveInteraction call,
\* which has placed it in the list once unless it awaits the load.
AppendedWhileEnabled(x) ==
  /\ Cardinality(OpsOf(storeOps', x.id)) = 1
  /\ \A k \in OpsOf(storeOps', x.id) :
       /\ storeOps'[k].arg = x
       /\ Placed(appendLog', x.id) = IF storeOps'[k].pc = "load" THEN 0 ELSE 1

\* A saveInteraction call begins only for an Interaction published in the
\* same step with capture enabled, and a record of the session stands in the
\* push history once, placed by such a call.
OnlyPublishedAppended ==
  /\ \A k \in DOMAIN storeOps' :
       (/\ storeOps'[k].op = "saveInteraction"
        /\ OpsOf(storeOps, storeOps'[k].arg.id) = {})
         => /\ loggingEnabled
            /\ \E i \in NewlyPublished : published'[i] = storeOps'[k].arg
  /\ \A j \in DOMAIN appendLog' :
       appendLog'[j].id > 0 =>
         /\ Placed(appendLog', appendLog'[j].id) = 1
         /\ \/ Placed(appendLog, appendLog'[j].id) = 1
            \/ OpsOf(storeOps', appendLog'[j].id) # {}

\* C31: an Interaction published while capture is disabled is not appended,
\* the store's list and backing file staying as they are, and an Interaction
\* published while capture is enabled is appended to the store exactly once.
C31_SwitchGatesAppend ==
  [][/\ NewlyPublished # {} => loggingEnabled' = loggingEnabled
     /\ \A i \in NewlyPublished :
          IF loggingEnabled THEN AppendedWhileEnabled(published'[i])
          ELSE SkippedWhileDisabled(published'[i])
     /\ OnlyPublishedAppended]_vars

\* C31 witness: of two Interactions published by one text signal, the first,
\* published with capture enabled, stands in the list once, and the second,
\* published after the switch was turned off, does not; every call has
\* settled.
C31_Witness ==
  /\ Len(published) = 2 /\ ~loggingEnabled /\ loadPc = "done"
  /\ storeOps = <<>> /\ DOMAIN textTasks = {}
  /\ Placed(interactions, published[1].id) = 1
  /\ Placed(interactions, published[2].id) = 0
  /\ Placed(appendLog, published[2].id) = 0

====
